---- MODULE Spec2Model ----
(***************************************************************************)
(* aiotrade: shared session manager, per-exchange HTTP clients, request    *)
(* pipeline and credential-keyed client caches.                            *)
(*                                                                         *)
(* Python values are tagged records [t, v]: t is the Python type and v the *)
(* value's text as a sequence of one-character strings.  A dict is a       *)
(* function from its keys to values.  A session is an aiohttp              *)
(* ClientSession, identified by its position in `sessions`; 0 is None.     *)
(***************************************************************************)
EXTENDS Integers, Sequences, FiniteSets, TLC

VARIABLES
    sessions,             \* every ClientSession created so far: [closed, owner]
    mgr_session,          \* SharedSessionManager._session (0 = None)
    mgr_max_connections,  \* SharedSessionManager._max_connections
    closers,              \* SharedSessionManager.close() calls suspended in the await
    clients,              \* every HttpClient constructed so far (fields of the object)
    cache,                \* per exchange: _cache, key -> [client, expires_at]
    lifetime,             \* per exchange: _lifetime_seconds
    now,                  \* time.monotonic()
    tasks,                \* asyncio tasks created so far: [kind, state, ...]
    request,              \* what the last _build_request_args signed and returned
    params_obj,           \* the dict object the caller passes as params: [dict, passes, made]
    legacy_cache,         \* aiobybit BybitClientCache._cache: key -> [client, timestamp]
    last                  \* the operation just performed and what its caller observed

vars == <<sessions, mgr_session, mgr_max_connections, closers, clients,
          cache, lifetime, now, tasks, request, params_obj, legacy_cache, last>>

(***************************** bounds **************************************)
MaxSessions == 3
MaxClients == 2
MaxClosers == 1
MaxTime == 2
MaxTasks == 2
MaxPasses == 2

(***************************** program constants ***************************)
DefaultLifetime == 600
DefaultMaxConnections == 2000
DefaultRecvWindow == 5000

(***************************** Python values *******************************)
None == [t |-> "none", v |-> <<>>]
Str(s) == [t |-> "str", v |-> s]
PyInt(s) == [t |-> "int", v |-> s]
PyFloat(s) == [t |-> "float", v |-> s]

\* bool(x) for the values used as credentials: None and "" are falsy
Truthy(x) == x.t = "str" /\ Len(x.v) > 0

\* x == 0 in Python: an int or float zero; a str or None never equals 0
PyEqZero(x) ==
    \/ x.t = "int" /\ x.v = <<"0">>
    \/ x.t = "float" /\ x.v = <<"0", ".", "0">>

Exchanges == {"bybit", "bingx"}
Methods == {"GET", "POST", "PUT", "DELETE"}

Key1 == Str(<<"k", "1">>)
Secret1 == Str(<<"s", "1">>)
Empty == Str(<<>>)

(***************************** what a caller observes **********************)
NoCall ==
    [op |-> "init", c |-> 0, args |-> <<>>, err |-> "", msg |-> "", ret |-> 0,
     exchange |-> "", code |-> None, message |-> <<>>, resp |-> <<>>]

Returned(op, c, args, ret) ==
    [NoCall EXCEPT !.op = op, !.c = c, !.args = args, !.ret = ret]

Raised(op, c, args, err, msg) ==
    [NoCall EXCEPT !.op = op, !.c = c, !.args = args, !.err = err, !.msg = msg]

(***************************** sessions ************************************)
\* aiohttp.ClientSession(...): a new open session, a new object identity
NewSession(owner) == Append(sessions, [closed |-> FALSE, owner |-> owner])

\* ClientSession.close(): the session reports closed from the moment the
\* call starts; a closed session never reopens
CloseSession(s) == [sessions EXCEPT ![s].closed = TRUE]

SessionClosed(s) == sessions[s].closed

(***************************** SharedSessionManager ************************)
\* mutant: is_initialized() that forgets to look at session.closed
is_initialized_not_none == mgr_session # 0

is_initialized == mgr_session # 0 /\ ~SessionClosed(mgr_session)

\* mutant: setup() without the early return, replacing an open session
setup_recreates(max_connections) ==
    /\ Len(sessions) < MaxSessions
    /\ mgr_max_connections' = max_connections
    /\ sessions' = NewSession("shared")
    /\ mgr_session' = Len(sessions) + 1
    /\ last' = Returned("setup", 0, <<max_connections>>, 0)
    /\ UNCHANGED <<closers, clients, cache, lifetime, now, tasks, request, params_obj, legacy_cache>>

setup(max_connections) ==
    /\ Len(sessions) < MaxSessions \/ is_initialized
    /\ IF mgr_session # 0 /\ ~SessionClosed(mgr_session)
       THEN UNCHANGED <<sessions, mgr_session, mgr_max_connections>>
       ELSE /\ mgr_max_connections' = max_connections
            /\ sessions' = NewSession("shared")
            /\ mgr_session' = Len(sessions) + 1
    /\ last' = Returned("setup", 0, <<max_connections>>, 0)
    /\ UNCHANGED <<closers, clients, cache, lifetime, now, tasks, request, params_obj, legacy_cache>>

\* mutant: get_session() that only tests for None
get_session_unchecked ==
    /\ last' = IF mgr_session = 0
               THEN Raised("get_session", 0, <<>>, "RuntimeError",
                           "SharedSessionManager.setup() must be called first.")
               ELSE Returned("get_session", 0, <<>>, mgr_session)
    /\ UNCHANGED <<sessions, mgr_session, mgr_max_connections, closers,
                   clients, cache, lifetime, now, tasks, request, params_obj, legacy_cache>>

get_session ==
    /\ last' = IF ~is_initialized
               THEN Raised("get_session", 0, <<>>, "RuntimeError",
                           "SharedSessionManager.setup() must be called first.")
               ELSE Returned("get_session", 0, <<>>, mgr_session)
    /\ UNCHANGED <<sessions, mgr_session, mgr_max_connections, closers,
                   clients, cache, lifetime, now, tasks, request, params_obj, legacy_cache>>

\* close() up to its suspension in `await cls._session.close()`; the else
\* branch returns at once
SharedSessionManager_close ==
    IF mgr_session # 0 /\ ~SessionClosed(mgr_session)
    THEN /\ closers < MaxClosers
         /\ sessions' = CloseSession(mgr_session)
         /\ closers' = closers + 1
         /\ last' = Returned("SharedSessionManager.close:await", 0, <<>>, 0)
         /\ UNCHANGED <<mgr_session, mgr_max_connections, clients,
                        cache, lifetime, now, tasks, request, params_obj, legacy_cache>>
    ELSE /\ last' = Returned("SharedSessionManager.close", 0, <<>>, 0)
         /\ UNCHANGED <<sessions, mgr_session, mgr_max_connections, closers,
                        clients, cache, lifetime, now, tasks, request, params_obj, legacy_cache>>

\* close() resumed after the await: cls._session = None, then it returns
SharedSessionManager_close_resume ==
    /\ closers > 0
    /\ closers' = closers - 1
    /\ mgr_session' = 0
    /\ last' = Returned("SharedSessionManager.close", 0, <<>>, 0)
    /\ UNCHANGED <<sessions, mgr_max_connections, clients, cache,
                   lifetime, now, tasks, request, params_obj, legacy_cache>>

(***************************** HttpClient **********************************)
\* mutant: the demo test placed before the test of both flags
bybit_base_url_demo_first(demo, testnet) ==
    IF demo THEN "https://api-demo.bybit.com"
    ELSE IF demo /\ testnet THEN "https://api-demo-testnet.bybit.com"
    ELSE IF testnet THEN "https://api-testnet.bybit.com"
    ELSE "https://api.bybit.com"

\* BybitHttpClient.__init__: subdomain selection from the demo/testnet flags
bybit_base_url(demo, testnet) ==
    IF demo /\ testnet THEN "https://api-demo-testnet.bybit.com"
    ELSE IF demo THEN "https://api-demo.bybit.com"
    ELSE IF testnet THEN "https://api-testnet.bybit.com"
    ELSE "https://api.bybit.com"

\* BingxHttpClient.__init__
bingx_base_url(demo) ==
    IF demo THEN "https://open-api-vst.bingx.com" ELSE "https://open-api.bingx.com"

base_url(exchange, demo, testnet) ==
    IF exchange = "bybit" THEN bybit_base_url(demo, testnet) ELSE bingx_base_url(demo)

\* HttpClient.__init__: the session the new client holds and whether it is
\* the shared one.  at_ctor is a history field: the manager's open session
\* at the moment of construction (0 if there was none).
NewClient(exchange, api_key, api_secret, demo, testnet, recv_window, referral_id) ==
    [exchange |-> exchange,
     base_url |-> base_url(exchange, demo, testnet),
     api_key |-> api_key,
     api_secret |-> api_secret,
     recv_window |-> recv_window,
     referral_id |-> referral_id,
     session |-> IF is_initialized THEN mgr_session ELSE Len(sessions) + 1,
     shared |-> is_initialized,
     at_ctor |-> IF mgr_session # 0 /\ ~sessions[mgr_session].closed
                 THEN mgr_session ELSE 0]

\* the sessions after HttpClient.__init__: a private session is created
\* only when the shared one is not initialized
SessionsAfterInit == IF is_initialized THEN sessions ELSE NewSession("private")

CanConstruct ==
    /\ Len(clients) < MaxClients
    /\ is_initialized \/ Len(sessions) < MaxSessions

HttpClient_init(exchange, api_key, api_secret, demo, testnet) ==
    /\ CanConstruct
    /\ clients' = Append(clients,
                         NewClient(exchange, api_key, api_secret, demo, testnet,
                                   DefaultRecvWindow, None))
    /\ sessions' = SessionsAfterInit
    /\ last' = Returned("HttpClient", Len(clients) + 1,
                        <<exchange, api_key, api_secret, demo, testnet>>,
                        Len(clients) + 1)
    /\ UNCHANGED <<mgr_session, mgr_max_connections, closers, cache, lifetime, now, tasks, request, params_obj, legacy_cache>>

Constructed == 1..Len(clients)

\* HttpClient._close_session: nothing follows the await, so the call is one step
close_session(c) ==
    IF clients[c].session # 0 /\ ~SessionClosed(clients[c].session)
    THEN CloseSession(clients[c].session)
    ELSE sessions

HttpClient_close(c) ==
    /\ c \in Constructed
    /\ sessions' = close_session(c)
    /\ last' = Returned("HttpClient.close", c, <<>>, 0)
    /\ UNCHANGED <<mgr_session, mgr_max_connections, closers, clients,
                   cache, lifetime, now, tasks, request, params_obj, legacy_cache>>

\* mutant: __aexit__ without the test of _shared_session
aexit_always_closes(c) ==
    /\ c \in Constructed
    /\ sessions' = close_session(c)
    /\ last' = Returned("__aexit__", c, <<>>, 0)
    /\ UNCHANGED <<mgr_session, mgr_max_connections, closers, clients,
                   cache, lifetime, now, tasks, request, params_obj, legacy_cache>>

\* HttpClient.__aexit__ (HttpClient.__aenter__ returns self and changes nothing)
aexit(c) ==
    /\ c \in Constructed
    /\ sessions' = IF ~clients[c].shared THEN close_session(c) ELSE sessions
    /\ last' = Returned("__aexit__", c, <<>>, 0)
    /\ UNCHANGED <<mgr_session, mgr_max_connections, closers, clients,
                   cache, lifetime, now, tasks, request, params_obj, legacy_cache>>

uses_shared_session(c) == clients[c].shared

(***************************** request pipeline ****************************)
Digits == {"0", "1", "2", "3", "4", "5", "6", "7", "8", "9"}

\* the strings int() accepts, among those the model uses: decimal digits
\* with an optional sign
IsIntLiteral(s) ==
    LET body == IF Len(s) > 0 /\ s[1] \in {"+", "-"} THEN Tail(s) ELSE s
    IN  Len(body) > 0 /\ \A i \in 1..Len(body) : body[i] \in Digits

\* the exception int(x) raises ("" if none)
int_error(x) ==
    IF x.t = "none" THEN "TypeError"
    ELSE IF x.t = "str" /\ ~IsIntLiteral(x.v) THEN "ValueError"
    ELSE ""

\* BybitHttpClient._prepare_payload, cast_values: the exception it raises.
\* str(value) never raises; int(value) runs for a positionIdx that is not an int.
cast_values_error(params) ==
    IF "positionIdx" \in DOMAIN params /\ params["positionIdx"].t # "int"
    THEN int_error(params["positionIdx"])
    ELSE ""

\* BybitHttpClient._prepare_payload: GET never casts
bybit_prepare_payload_error(method, params) ==
    IF method = "GET" THEN "" ELSE cast_values_error(params)

session_closed_msg(c) ==
    IF clients[c].shared
    THEN "Session is closed (shared). Create a new HttpClient instance."
    ELSE "Session is closed (individual). Create a new HttpClient instance."

Built == [err |-> "", msg |-> ""]

\* mutant: _build_request_args without the test of self._session.closed
bybit_build_request_args_no_session_check(c, method, params, auth) ==
    IF bybit_prepare_payload_error(method, params) # ""
    THEN [err |-> bybit_prepare_payload_error(method, params), msg |-> "int()"]
    ELSE IF auth /\ ~(Truthy(clients[c].api_key) /\ Truthy(clients[c].api_secret))
    THEN [err |-> "ValueError",
          msg |-> "API key and API secret must be set for authenticated requests."]
    ELSE Built

\* BybitHttpClient._build_request_args: the exception it raises, or Built
bybit_build_request_args(c, method, params, auth) ==
    IF SessionClosed(clients[c].session)
    THEN [err |-> "RuntimeError", msg |-> session_closed_msg(c)]
    ELSE IF bybit_prepare_payload_error(method, params) # ""
    THEN [err |-> bybit_prepare_payload_error(method, params), msg |-> "int()"]
    ELSE IF auth /\ ~(Truthy(clients[c].api_key) /\ Truthy(clients[c].api_secret))
    THEN [err |-> "ValueError",
          msg |-> "API key and API secret must be set for authenticated requests."]
    ELSE Built

\* mutant: the credentials test looks at api_key only
bingx_build_request_args_key_only(c, method, params, auth) ==
    IF SessionClosed(clients[c].session)
    THEN [err |-> "RuntimeError", msg |-> session_closed_msg(c)]
    ELSE IF auth /\ ~Truthy(clients[c].api_key)
    THEN [err |-> "ValueError",
          msg |-> "API key must be set for authenticated requests."]
    ELSE Built

\* BingxHttpClient._build_request_args: the exception it raises, or Built
bingx_build_request_args(c, method, params, auth) ==
    IF SessionClosed(clients[c].session)
    THEN [err |-> "RuntimeError", msg |-> session_closed_msg(c)]
    ELSE IF auth /\ ~Truthy(clients[c].api_key)
    THEN [err |-> "ValueError",
          msg |-> "API key must be set for authenticated requests."]
    ELSE IF auth /\ ~Truthy(clients[c].api_secret)
    THEN [err |-> "ValueError",
          msg |-> "API secret must be set for authenticated requests."]
    ELSE Built

build_request_args(c, method, params, auth) ==
    IF clients[c].exchange = "bybit"
    THEN bybit_build_request_args(c, method, params, auth)
    ELSE bingx_build_request_args(c, method, params, auth)

\* dict.get(key): None when the key is missing
dict_get(d, key) == IF key \in DOMAIN d THEN d[key] ELSE None

CodeKeys == <<"code", "retCode">>
MessageKeys == <<"msg", "message", "error", "retMsg", "error_message">>
NoMessage == <<"No error message found in response.">>

\* ExchangeResponseError._extract_code
RECURSIVE extract_code_from(_, _)
extract_code_from(resp, keys) ==
    IF keys = <<>> THEN None
    ELSE IF Head(keys) \in DOMAIN resp THEN resp[Head(keys)]
    ELSE extract_code_from(resp, Tail(keys))

\* mutant: retCode looked up before code
extract_code_retCode_first(resp) == extract_code_from(resp, <<"retCode", "code">>)

extract_code(resp) == extract_code_from(resp, CodeKeys)

\* ExchangeResponseError._extract_message
RECURSIVE extract_message_from(_, _)
extract_message_from(resp, keys) ==
    IF keys = <<>> THEN NoMessage
    ELSE IF Head(keys) \in DOMAIN resp /\ resp[Head(keys)].t = "str"
    THEN resp[Head(keys)].v
    ELSE extract_message_from(resp, Tail(keys))

extract_message(resp) == extract_message_from(resp, MessageKeys)

\* ExchangeResponseError.__init__(exchange, resp, message): the fields of
\* the exception; message is text, empty by default
ExchangeResponseError_init(exchange, resp, message) ==
    [NoCall EXCEPT !.op = "ExchangeResponseError",
                   !.args = <<exchange, resp, message>>,
                   !.err = "ExchangeResponseError",
                   !.exchange = exchange,
                   !.code = extract_code(resp),
                   !.message = IF message # <<>> THEN message
                               ELSE extract_message(resp),
                   !.resp = resp]

\* raise ExchangeResponseError(exchange, resp, message) in user code, once
\* per behaviour: the fields depend on the arguments alone
raise_ExchangeResponseError(exchange, resp, message) ==
    /\ last = NoCall
    /\ last' = ExchangeResponseError_init(exchange, resp, message)
    /\ UNCHANGED <<sessions, mgr_session, mgr_max_connections, closers, clients,
                   cache, lifetime, now, tasks, request, params_obj, legacy_cache>>

\* ExchangeResponseError(exchange, resp) as the caller of the request sees it
ExchangeResponseError(c, exchange, resp) ==
    [NoCall EXCEPT !.op = "request", !.c = c, !.err = "ExchangeResponseError",
                   !.exchange = exchange, !.code = extract_code(resp),
                   !.message = extract_message(resp), !.resp = resp]

\* the top-level result code field each exchange's _async_request inspects
result_code_key(exchange) == IF exchange = "bybit" THEN "retCode" ELSE "code"

\* What comes back from the wire: a transport failure, a non-2xx status,
\* a body that is not JSON ("" if none of them), or a JSON object
WireFailures == {"ClientConnectionError", "ClientResponseError", "JSONDecodeError"}

\* mutant: a missing result code read as success (resp.get(key, 0))
response_result_missing_is_ok(c, failure, resp) ==
    IF failure # ""
    THEN [Raised("request", c, <<>>, failure, "") EXCEPT !.ret = 1]
    ELSE IF /\ result_code_key(clients[c].exchange) \in DOMAIN resp
            /\ ~PyEqZero(resp[result_code_key(clients[c].exchange)])
    THEN [ExchangeResponseError(c, clients[c].exchange, resp) EXCEPT !.ret = 1]
    ELSE [Returned("request", c, <<>>, 1) EXCEPT !.resp = resp]

\* _async_request after the dispatch: what the caller gets for the outcome
\* of the wire
response_result(c, failure, resp) ==
    IF failure # ""
    THEN [Raised("request", c, <<>>, failure, "") EXCEPT !.ret = 1]
    ELSE IF ~PyEqZero(dict_get(resp, result_code_key(clients[c].exchange)))
    THEN [ExchangeResponseError(c, clients[c].exchange, resp) EXCEPT !.ret = 1]
    ELSE [Returned("request", c, <<>>, 1) EXCEPT !.resp = resp]

\* get/post/put/delete -> _async_request.  Either _build_request_args raises
\* or the request is dispatched once.  The code after the await reads only
\* the response and touches no shared state, so the dispatch and its
\* completion are one step.  last.ret counts the dispatches of the call.
async_request(c, method, params, auth, failure, resp) ==
    /\ c \in Constructed
    /\ LET built == build_request_args(c, method, params, auth)
       IN  last' = [(IF built.err # ""
                     THEN Raised("request", c, <<>>, built.err, built.msg)
                     ELSE response_result(c, failure, resp))
                    EXCEPT !.args = <<method, params, auth>>]
    /\ UNCHANGED <<sessions, mgr_session, mgr_max_connections, closers, clients,
                   cache, lifetime, now, tasks, request, params_obj, legacy_cache>>

(***************************** client caches *******************************)
\* BybitClientsCache._make_key
bybit_make_key(api_key, api_secret, demo, testnet) ==
    <<api_key, api_secret, demo, testnet>>

\* BingxClientsCache._make_key
bingx_make_key(api_key, api_secret, demo) == <<api_key, api_secret, demo>>

\* the key of either cache; the BingX cache has no testnet flag
make_key(exchange, api_key, api_secret, demo, testnet) ==
    IF exchange = "bybit"
    THEN bybit_make_key(api_key, api_secret, demo, testnet)
    ELSE bingx_make_key(api_key, api_secret, demo)

\* mutant: an entry already under the key is kept (dict.setdefault)
CachePut_keeps_existing(exchange, key, client, expires_at) ==
    [cache EXCEPT ![exchange] =
        @ @@ (key :> [client |-> client, expires_at |-> expires_at])]

\* cls._cache[key] = (client, expires_at)
CachePut(exchange, key, client, expires_at) ==
    [cache EXCEPT ![exchange] =
        (key :> [client |-> client, expires_at |-> expires_at]) @@ @]

\* mutant: add that files every client under the key without flags set
add_under_default_flags(exchange, client, api_key, api_secret, demo, testnet) ==
    CachePut(exchange, make_key(exchange, api_key, api_secret, FALSE, FALSE),
             client, now + lifetime[exchange])

\* BaseClientsCache.add: the cache after it
add(exchange, client, api_key, api_secret, demo, testnet) ==
    CachePut(exchange, make_key(exchange, api_key, api_secret, demo, testnet),
             client, now + lifetime[exchange])

\* mutant: configure that also moves the expiry of the entries in the cache
configure_rewrites_expiry(exchange, lifetime_seconds) ==
    /\ lifetime' = [lifetime EXCEPT ![exchange] = lifetime_seconds]
    /\ cache' = [cache EXCEPT ![exchange] =
                    [k \in DOMAIN @ |->
                        [@[k] EXCEPT !.expires_at = now + lifetime_seconds]]]
    /\ last' = Returned("configure", 0, <<exchange, lifetime_seconds>>, 0)
    /\ UNCHANGED <<sessions, mgr_session, mgr_max_connections, closers, clients,
                   now, tasks, request, params_obj, legacy_cache>>

\* BaseClientsCache.configure
configure(exchange, lifetime_seconds) ==
    /\ lifetime' = [lifetime EXCEPT ![exchange] = lifetime_seconds]
    /\ last' = Returned("configure", 0, <<exchange, lifetime_seconds>>, 0)
    /\ UNCHANGED <<sessions, mgr_session, mgr_max_connections, closers, clients,
                   cache, now, tasks, request, params_obj, legacy_cache>>

\* BaseClientsCache.get: the cached client, 0 for None
cache_get(exchange, api_key, api_secret, demo, testnet) ==
    /\ LET key == make_key(exchange, api_key, api_secret, demo, testnet)
       IN  last' = Returned("get", 0, <<exchange, key>>,
                            IF key \in DOMAIN cache[exchange]
                            THEN cache[exchange][key].client ELSE 0)
    /\ UNCHANGED <<sessions, mgr_session, mgr_max_connections, closers, clients,
                   cache, lifetime, now, tasks, request, params_obj, legacy_cache>>

\* BaseClientsCache.add called by the user with a client it holds
cache_add(exchange, client, api_key, api_secret, demo, testnet) ==
    /\ client \in Constructed
    /\ clients[client].exchange = exchange
    /\ cache' = add(exchange, client, api_key, api_secret, demo, testnet)
    /\ last' = Returned("add", client,
                        <<exchange, make_key(exchange, api_key, api_secret,
                                             demo, testnet)>>, 0)
    /\ UNCHANGED <<sessions, mgr_session, mgr_max_connections, closers, clients,
                   lifetime, now, tasks, request, params_obj, legacy_cache>>

\* mutant: a hit that applies the recv_window and referral_id it is given
get_or_create_reconfigures_on_hit(exchange, api_key, api_secret, testnet, demo, recv_window, referral_id) ==
    LET key == make_key(exchange, api_key, api_secret, demo, testnet)
    IN  IF key \in DOMAIN cache[exchange]
        THEN /\ clients' = [clients EXCEPT
                               ![cache[exchange][key].client].recv_window = recv_window,
                               ![cache[exchange][key].client].referral_id = referral_id]
             /\ last' = [Returned("get_or_create", cache[exchange][key].client,
                                  <<exchange, key>>, cache[exchange][key].client)
                         EXCEPT !.msg = "hit"]
             /\ UNCHANGED <<sessions, mgr_session, mgr_max_connections, closers,
                            cache, lifetime, now, request, params_obj, legacy_cache>>
        ELSE /\ CanConstruct
             /\ clients' = Append(clients,
                                  NewClient(exchange, api_key, api_secret, demo,
                                            testnet, recv_window, referral_id))
             /\ sessions' = SessionsAfterInit
             /\ cache' = add(exchange, Len(clients) + 1, api_key, api_secret,
                             demo, testnet)
             /\ last' = [Returned("get_or_create", Len(clients) + 1,
                                  <<exchange, key>>, Len(clients) + 1)
                         EXCEPT !.msg = "miss"]
             /\ UNCHANGED <<mgr_session, mgr_max_connections, closers, lifetime, now,
                            request, params_obj, legacy_cache>>

\* mutant: get_or_create that stores the new client with demo and testnet
\* exchanged
get_or_create_swapped_flags(exchange, api_key, api_secret, testnet, demo, recv_window, referral_id) ==
    LET key == make_key(exchange, api_key, api_secret, demo, testnet)
    IN  IF key \in DOMAIN cache[exchange]
        THEN /\ last' = [Returned("get_or_create", cache[exchange][key].client,
                                  <<exchange, key>>, cache[exchange][key].client)
                         EXCEPT !.msg = "hit"]
             /\ UNCHANGED <<sessions, mgr_session, mgr_max_connections, closers,
                            clients, cache, lifetime, now, request, params_obj, legacy_cache>>
        ELSE /\ CanConstruct
             /\ clients' = Append(clients,
                                  NewClient(exchange, api_key, api_secret, demo,
                                            testnet, recv_window, referral_id))
             /\ sessions' = SessionsAfterInit
             /\ cache' = add(exchange, Len(clients) + 1, api_key, api_secret,
                             testnet, demo)
             /\ last' = [Returned("get_or_create", Len(clients) + 1,
                                  <<exchange, key>>, Len(clients) + 1)
                         EXCEPT !.msg = "miss"]
             /\ UNCHANGED <<mgr_session, mgr_max_connections, closers, lifetime, now, request, params_obj, legacy_cache>>

\* mutant: get_or_create whose lookup result is stale by the time it
\* inserts, as if it had suspended in between: it constructs and inserts
\* whatever the cache holds
get_or_create_stale_lookup(exchange, api_key, api_secret, testnet, demo, recv_window, referral_id) ==
    /\ CanConstruct
    /\ clients' = Append(clients,
                         NewClient(exchange, api_key, api_secret, demo,
                                   testnet, recv_window, referral_id))
    /\ sessions' = SessionsAfterInit
    /\ cache' = add(exchange, Len(clients) + 1, api_key, api_secret,
                    demo, testnet)
    /\ last' = [Returned("get_or_create", Len(clients) + 1,
                         <<exchange, make_key(exchange, api_key, api_secret,
                                              demo, testnet)>>,
                         Len(clients) + 1)
                EXCEPT !.msg = "miss"]
    /\ UNCHANGED <<mgr_session, mgr_max_connections, closers, lifetime, now, request, params_obj, legacy_cache>>

\* BybitClientsCache.get_or_create / BingxClientsCache.get_or_create: no
\* suspension point, one step.  last.msg tells a hit from a miss.
get_or_create(exchange, api_key, api_secret, testnet, demo, recv_window, referral_id) ==
    LET key == make_key(exchange, api_key, api_secret, demo, testnet)
    IN  IF key \in DOMAIN cache[exchange]
        THEN /\ last' = [Returned("get_or_create", cache[exchange][key].client,
                                  <<exchange, key>>, cache[exchange][key].client)
                         EXCEPT !.msg = "hit"]
             /\ UNCHANGED <<sessions, mgr_session, mgr_max_connections, closers,
                            clients, cache, lifetime, now, request, params_obj, legacy_cache>>
        ELSE /\ CanConstruct
             /\ clients' = Append(clients,
                                  NewClient(exchange, api_key, api_secret, demo,
                                            testnet, recv_window, referral_id))
             /\ sessions' = SessionsAfterInit
             /\ cache' = add(exchange, Len(clients) + 1, api_key, api_secret,
                             demo, testnet)
             /\ last' = [Returned("get_or_create", Len(clients) + 1,
                                  <<exchange, key>>, Len(clients) + 1)
                         EXCEPT !.msg = "miss"]
             /\ UNCHANGED <<mgr_session, mgr_max_connections, closers, lifetime, now, request, params_obj, legacy_cache>>

\* mutant: an entry expiring at this very instant is kept (exp < now)
expired_keys_strict(exchange) ==
    {k \in DOMAIN cache[exchange] : cache[exchange][k].expires_at < now}

\* the keys cleanup_expired deletes
expired_keys(exchange) ==
    {k \in DOMAIN cache[exchange] : cache[exchange][k].expires_at <= now}

\* BaseClientsCache.cleanup_expired
cleanup_expired(exchange) ==
    /\ cache' = [cache EXCEPT ![exchange] =
                    [k \in DOMAIN @ \ expired_keys(exchange) |-> @[k]]]
    /\ last' = Returned("cleanup_expired", 0, <<exchange>>,
                        Cardinality(expired_keys(exchange)))
    /\ UNCHANGED <<sessions, mgr_session, mgr_max_connections, closers, clients,
                   lifetime, now, request, params_obj, legacy_cache>>

\* mutant: clear() that also closes the session of every client it drops
clear_closing_sessions(exchange) ==
    /\ cache' = [cache EXCEPT ![exchange] = <<>>]
    /\ sessions' = [i \in 1..Len(sessions) |->
                       IF \E k \in DOMAIN cache[exchange] :
                              clients[cache[exchange][k].client].session = i
                       THEN [sessions[i] EXCEPT !.closed = TRUE]
                       ELSE sessions[i]]
    /\ last' = Returned("clear", 0, <<exchange>>, 0)
    /\ UNCHANGED <<mgr_session, mgr_max_connections, closers, clients,
                   lifetime, now, tasks, request, params_obj, legacy_cache>>

\* BaseClientsCache.clear
clear(exchange) ==
    /\ cache' = [cache EXCEPT ![exchange] = <<>>]
    /\ last' = Returned("clear", 0, <<exchange>>, 0)
    /\ UNCHANGED <<sessions, mgr_session, mgr_max_connections, closers, clients,
                   lifetime, now, tasks, request, params_obj, legacy_cache>>

(***************************** asyncio tasks *******************************)
Task(kind, state, exchange, args, interval, wake_at) ==
    [kind |-> kind, state |-> state, exchange |-> exchange, args |-> args,
     ret |-> 0, interval |-> interval, wake_at |-> wake_at]

Tasks == 1..Len(tasks)

\* asyncio.gather(*(get_or_create_aenter_and_fetch(i) for i in ...)): one
\* task per coroutine, none of them started yet.  calls[i] is
\* <<api_key, api_secret, testnet, demo>>.
gather(exchange, calls) ==
    /\ Len(tasks) + Len(calls) <= MaxTasks
    /\ tasks' = tasks \o [i \in 1..Len(calls) |->
                            Task("get_or_create", "pending", exchange,
                                 calls[i], 0, 0)]
    /\ last' = Returned("gather", 0, <<exchange, calls>>, 0)
    /\ UNCHANGED <<sessions, mgr_session, mgr_max_connections, closers, clients,
                   cache, lifetime, now, request, params_obj, legacy_cache>>

\* the event loop runs one of the gathered coroutines; it has no await, so
\* it runs to its return in one step
get_or_create_aenter_and_fetch(t) ==
    /\ t \in Tasks
    /\ tasks[t].kind = "get_or_create"
    /\ tasks[t].state = "pending"
    /\ get_or_create(tasks[t].exchange, tasks[t].args[1], tasks[t].args[2],
                     tasks[t].args[3], tasks[t].args[4], DefaultRecvWindow, None)
    /\ tasks' = [tasks EXCEPT ![t].state = "done", ![t].ret = last'.ret]

\* BaseClientsCache.create_cleanup_task: the worker task starts in its
\* first sleep
create_cleanup_task(exchange, interval_seconds) ==
    /\ Len(tasks) < MaxTasks
    /\ tasks' = Append(tasks, Task("cleanup", "sleeping", exchange, <<>>,
                                   interval_seconds, now + interval_seconds))
    /\ last' = Returned("create_cleanup_task", 0,
                        <<exchange, interval_seconds>>, Len(tasks) + 1)
    /\ UNCHANGED <<sessions, mgr_session, mgr_max_connections, closers, clients,
                   cache, lifetime, now, request, params_obj, legacy_cache>>

\* mutant: a worker that sweeps once and returns (no while True)
worker_once(t) ==
    /\ t \in Tasks
    /\ tasks[t].kind = "cleanup"
    /\ tasks[t].state = "sleeping"
    /\ now >= tasks[t].wake_at
    /\ cleanup_expired(tasks[t].exchange)
    /\ tasks' = [tasks EXCEPT ![t].state = "done"]

\* worker: the sleep is over, one sweep, and the next sleep begins
worker(t) ==
    /\ t \in Tasks
    /\ tasks[t].kind = "cleanup"
    /\ tasks[t].state = "sleeping"
    /\ now >= tasks[t].wake_at
    /\ cleanup_expired(tasks[t].exchange)
    /\ tasks' = [tasks EXCEPT ![t].wake_at = now + tasks[t].interval]

\* Task.cancel() on the task create_cleanup_task returned: CancelledError
\* ends the worker inside its sleep
cancel(t) ==
    /\ t \in Tasks
    /\ tasks[t].kind = "cleanup"
    /\ tasks[t].state = "sleeping"
    /\ tasks' = [tasks EXCEPT ![t].state = "cancelled"]
    /\ last' = Returned("cancel", 0, <<t>>, 0)
    /\ UNCHANGED <<sessions, mgr_session, mgr_max_connections, closers, clients,
                   cache, lifetime, now, request, params_obj, legacy_cache>>

\* time.monotonic() advances
Tick ==
    /\ now < MaxTime
    /\ now' = now + 1
    /\ last' = Returned("tick", 0, <<>>, 0)
    /\ UNCHANGED <<sessions, mgr_session, mgr_max_connections, closers, clients,
                   cache, lifetime, tasks, request, params_obj, legacy_cache>>

(***************************** signed requests *****************************)
\* A params dict keeps its insertion order: it is a sequence of <<key, value>>
\* pairs with distinct keys; keys are texts, values tagged Python values.

\* the characters the model uses, in ascending code point order
CodePoints ==
    <<"&", ",", "0", "1", "2", "3", "4", "5", "6", "7", "8", "9", ":", "=",
      "A", "B", "C", "D", "E", "F", "G", "H", "I", "J", "K", "L", "M", "N", "O",
      "P", "Q", "R", "S", "T", "U", "V", "W", "X", "Y", "Z",
      "a", "b", "c", "d", "e", "f", "g", "h", "i", "j", "k", "l", "m", "n", "o",
      "p", "q", "r", "s", "t", "u", "v", "w", "x", "y", "z">>

\* ord(ch)
OrdOf ==
    [ch \in {CodePoints[i] : i \in 1..Len(CodePoints)} |->
        CHOOSE i \in 1..Len(CodePoints) : CodePoints[i] = ch]

Ord(ch) == OrdOf[ch]

\* a < b on two str: lexicographic by code point
RECURSIVE StrLess(_, _)
StrLess(a, b) ==
    IF a = <<>> THEN b # <<>>
    ELSE IF b = <<>> THEN FALSE
    ELSE IF a[1] = b[1] THEN StrLess(Tail(a), Tail(b))
    ELSE Ord(a[1]) < Ord(b[1])

\* the parameter names the model uses
K_positionIdx == <<"p", "o", "s", "i", "t", "i", "o", "n", "I", "d", "x">>
K_qty == <<"q", "t", "y">>
K_recvWindow == <<"r", "e", "c", "v", "W", "i", "n", "d", "o", "w">>
K_signature == <<"s", "i", "g", "n", "a", "t", "u", "r", "e">>
K_symbol == <<"s", "y", "m", "b", "o", "l">>
K_timestamp == <<"t", "i", "m", "e", "s", "t", "a", "m", "p">>
K_type == <<"t", "y", "p", "e">>

HasKey(d, k) == \E i \in 1..Len(d) : d[i][1] = k

\* d[k] = v: a present key keeps its place, a new key goes last
dict_setitem(d, k, v) ==
    IF HasKey(d, k)
    THEN [i \in 1..Len(d) |-> IF d[i][1] = k THEN <<k, v>> ELSE d[i]]
    ELSE Append(d, <<k, v>>)

\* the position of the smallest key of a non-empty items list
MinItem(items) ==
    CHOOSE i \in 1..Len(items) :
        \A j \in 1..Len(items) : j # i => StrLess(items[i][1], items[j][1])

\* mutant: sorted() that keeps the order it is given
sorted_keeps_order(items) == items

\* sorted(params.items()), sorted(params): keys are distinct, so the items
\* come out in ascending key order
RECURSIVE sorted(_)
sorted(items) ==
    IF items = <<>> THEN <<>>
    ELSE LET m == MinItem(items)
         IN  <<items[m]>> \o
             sorted(SubSeq(items, 1, m - 1) \o SubSeq(items, m + 1, Len(items)))

DigitChars == <<"0", "1", "2", "3", "4", "5", "6", "7", "8", "9">>

\* str(n) of a non-negative int
RECURSIVE IntToStr(_)
IntToStr(n) ==
    IF n < 10 THEN <<DigitChars[n + 1]>>
    ELSE IntToStr(n \div 10) \o <<DigitChars[(n % 10) + 1]>>

\* str(v), f"{v}", f"{v!s}"
py_str(v) == IF v.t = "none" THEN <<"N", "o", "n", "e">> ELSE v.v

RECURSIVE StripZeros(_)
StripZeros(s) == IF Len(s) > 1 /\ s[1] = "0" THEN StripZeros(Tail(s)) ELSE s

\* int(v) of an int, or of a str that is an int literal
py_int(v) ==
    IF v.t = "int" THEN v
    ELSE LET neg  == v.v[1] = "-"
             body == IF v.v[1] \in {"+", "-"} THEN Tail(v.v) ELSE v.v
             z    == StripZeros(body)
         IN  PyInt(IF neg /\ z # <<"0">> THEN <<"-">> \o z ELSE z)

\* sep.join(parts)
RECURSIVE Join(_, _)
Join(parts, sep) ==
    IF parts = <<>> THEN <<>>
    ELSE IF Len(parts) = 1 THEN parts[1]
    ELSE parts[1] \o sep \o Join(Tail(parts), sep)

\* s.replace(old, new) for a one-character old
RECURSIVE replace(_, _, _)
replace(s, old, new) ==
    IF s = <<>> THEN <<>>
    ELSE (IF s[1] = old THEN new ELSE <<s[1]>>) \o replace(Tail(s), old, new)

\* the items whose value is not None
RECURSIVE NotNone(_)
NotNone(items) ==
    IF items = <<>> THEN <<>>
    ELSE (IF items[1][2].t = "none" THEN <<>> ELSE <<items[1]>>)
         \o NotNone(Tail(items))

\* f"{k}={v}" for every item
KeyEqValue(items) ==
    [i \in 1..Len(items) |-> items[i][1] \o <<"=">> \o py_str(items[i][2])]

\* the dict as a function from its keys, as the request pipeline reads it
AsDict(d) ==
    [k \in {d[i][1] : i \in 1..Len(d)} |->
        d[CHOOSE i \in 1..Len(d) : d[i][1] = k][2]]

StringParams ==
    {K_qty, <<"p", "r", "i", "c", "e">>,
     <<"t", "r", "i", "g", "g", "e", "r", "P", "r", "i", "c", "e">>,
     <<"t", "a", "k", "e", "P", "r", "o", "f", "i", "t">>,
     <<"s", "t", "o", "p", "L", "o", "s", "s">>}

\* cast_values() stops at the first item whose int() raises (0 if none)
CastFailsAt(params) ==
    IF \E i \in 1..Len(params) :
           params[i][1] = K_positionIdx /\ int_error(params[i][2]) # ""
    THEN CHOOSE i \in 1..Len(params) : params[i][1] = K_positionIdx
    ELSE 0

\* BybitHttpClient._prepare_payload, cast_values: params as it leaves them
cast_values(params) ==
    [i \in 1..Len(params) |->
        IF CastFailsAt(params) # 0 /\ i >= CastFailsAt(params) THEN params[i]
        ELSE IF params[i][1] \in StringParams
        THEN (IF params[i][2].t = "str" THEN params[i]
              ELSE <<params[i][1], Str(py_str(params[i][2]))>>)
        ELSE IF params[i][1] = K_positionIdx /\ params[i][2].t # "int"
        THEN <<params[i][1], py_int(params[i][2])>>
        ELSE params[i]]

\* one JSON value: a str in double quotes, a number bare (the model's
\* strings hold no character JSON escapes)
json_value(v) == IF v.t = "str" THEN <<"\"">> \o v.v \o <<"\"">> ELSE v.v

\* json.dumps(d, separators=(item_sep, key_sep)) of a dict without None
json_dumps(d, item_sep, key_sep) ==
    <<"{">> \o
    Join([i \in 1..Len(d) |->
             <<"\"">> \o d[i][1] \o <<"\"">> \o key_sep \o json_value(d[i][2])],
         item_sep)
    \o <<"}">>

\* orjson.dumps(d).decode(): no whitespace between tokens
orjson_dumps(d) == json_dumps(d, <<",">>, <<":">>)

\* BybitHttpClient._prepare_payload: the payload str (params already cast
\* for a method other than GET)
bybit_prepare_payload(method, params) ==
    IF method = "GET"
    THEN Join(KeyEqValue(NotNone(sorted(params))), <<"&">>)
    ELSE LET sanitized == NotNone(sorted(params))
         IN  IF sanitized = <<>> THEN <<"{", "}">>
             ELSE replace(replace(orjson_dumps(sanitized), ":", <<":", " ">>),
                          ",", <<",", " ">>)

\* hmac.new(key, msg, sha256).hexdigest(): one digest per (key, msg)
hexdigest(key, msg) == <<"<">> \o key \o <<"|">> \o msg \o <<">">>

\* time.time() in milliseconds, read off the same clock as time.monotonic()
TimeMs == now * 1000

\* mutant: _generate_signature that signs the default recv_window
bybit_generate_signature_default_window(c, api_key, api_secret, payload, timestamp) ==
    hexdigest(api_secret,
              IntToStr(timestamp) \o api_key \o IntToStr(DefaultRecvWindow)
              \o payload)

\* BybitHttpClient._generate_signature
bybit_generate_signature(c, api_key, api_secret, payload, timestamp) ==
    hexdigest(api_secret,
              IntToStr(timestamp) \o api_key \o IntToStr(clients[c].recv_window)
              \o payload)

NoRequest ==
    [method |-> "", auth |-> FALSE, timestamp |-> 0, payload |-> <<>>,
     signature |-> <<>>, headers |-> <<>>, query |-> <<>>, json |-> <<>>,
     has_json |-> FALSE]

\* the headers a Bybit request carries
bybit_headers(c, auth, signature, timestamp) ==
    (IF clients[c].referral_id.t # "none"
     THEN "Referer" :> clients[c].referral_id.v ELSE <<>>)
    @@ (IF auth
        THEN ("X-BAPI-API-KEY" :> clients[c].api_key.v)
             @@ ("X-BAPI-SIGN" :> signature)
             @@ ("X-BAPI-SIGN-TYPE" :> <<"2">>)
             @@ ("X-BAPI-TIMESTAMP" :> IntToStr(timestamp))
             @@ ("X-BAPI-RECV-WINDOW" :> IntToStr(clients[c].recv_window))
        ELSE <<>>)

\* BybitHttpClient._build_request_args: the exception it raises, or what it
\* signs and returns, and the caller's params dict as it leaves it
bybit_request_args(c, method, params, auth) ==
    LET cast      == IF method = "GET" THEN params ELSE cast_values(params)
        timestamp == TimeMs
        payload   == bybit_prepare_payload(method, cast)
        signature == IF auth
                     THEN bybit_generate_signature(c, clients[c].api_key.v,
                              clients[c].api_secret.v, payload, timestamp)
                     ELSE <<>>
    IN  IF SessionClosed(clients[c].session)
        THEN [err |-> "RuntimeError", msg |-> session_closed_msg(c),
              params |-> params, request |-> NoRequest]
        ELSE IF method # "GET" /\ CastFailsAt(params) # 0
        THEN [err |-> int_error(params[CastFailsAt(params)][2]), msg |-> "int()",
              params |-> cast, request |-> NoRequest]
        ELSE IF auth /\ ~(Truthy(clients[c].api_key) /\ Truthy(clients[c].api_secret))
        THEN [err |-> "ValueError",
              msg |-> "API key and API secret must be set for authenticated requests.",
              params |-> cast, request |-> NoRequest]
        ELSE [err |-> "", msg |-> "", params |-> cast,
              request |->
                [method |-> method, auth |-> auth, timestamp |-> timestamp,
                 payload |-> payload, signature |-> signature,
                 headers |-> bybit_headers(c, auth, signature, timestamp),
                 query |-> IF method = "GET" THEN payload ELSE <<>>,
                 json |-> IF method = "GET" THEN <<>> ELSE NotNone(sorted(cast)),
                 has_json |-> method # "GET"]]

\* urllib.parse.quote(ch, safe=''): letters and digits stay, the other
\* characters the model uses become %XX
quote_char(ch) ==
    IF ch = ":" THEN <<"%", "3", "A">>
    ELSE IF ch = "," THEN <<"%", "2", "C">>
    ELSE IF ch = "{" THEN <<"%", "7", "B">>
    ELSE IF ch = "[" THEN <<"%", "5", "B">>
    ELSE <<ch>>

RECURSIVE quote(_)
quote(s) == IF s = <<>> THEN <<>> ELSE quote_char(s[1]) \o quote(Tail(s))

\* BingxHttpClient._prepare_payload: a structured value triggers encoding
contains_struct(items) ==
    \E i \in 1..Len(items) :
        /\ items[i][2].t = "str"
        /\ \E j \in 1..Len(items[i][2].v) : items[i][2].v[j] \in {"{", "["}

\* f"{s}&timestamp={timestamp}" if s else f"timestamp={timestamp}"
with_timestamp(s, timestamp) ==
    (IF s # <<>> THEN s \o <<"&">> ELSE <<>>)
    \o K_timestamp \o <<"=">> \o IntToStr(timestamp)

\* mutant: _prepare_payload that signs a GET in the order params is given
bingx_prepare_payload_unsorted(method, params, timestamp) ==
    IF method = "GET"
    THEN [params_str |->
              with_timestamp(Join(KeyEqValue(params), <<"&">>), timestamp),
          url_params_str |->
              with_timestamp(Join(KeyEqValue(params), <<"&">>), timestamp),
          params |-> params]
    ELSE LET p == dict_setitem(params, K_timestamp, PyInt(IntToStr(timestamp)))
         IN  [params_str |-> Join(KeyEqValue(sorted(p)), <<"&">>),
              url_params_str |-> <<>>,
              params |-> p]

\* BingxHttpClient._prepare_payload: (payload for the signature, payload for
\* the query), and params as it leaves it
bingx_prepare_payload(method, params, timestamp) ==
    IF method = "GET"
    THEN LET sorted_items == sorted(params)
         IN  [params_str |->
                  with_timestamp(Join(KeyEqValue(sorted_items), <<"&">>), timestamp),
              url_params_str |->
                  with_timestamp(
                      IF contains_struct(sorted_items)
                      THEN Join([i \in 1..Len(sorted_items) |->
                                    sorted_items[i][1] \o <<"=">>
                                    \o quote(py_str(sorted_items[i][2]))], <<"&">>)
                      ELSE Join(KeyEqValue(sorted_items), <<"&">>),
                      timestamp),
              params |-> params]
    ELSE LET p == dict_setitem(params, K_timestamp, PyInt(IntToStr(timestamp)))
         IN  [params_str |-> Join(KeyEqValue(sorted(p)), <<"&">>),
              url_params_str |-> <<>>,
              params |-> p]

\* BingxHttpClient._generate_signature
bingx_generate_signature(api_secret, payload) == hexdigest(api_secret, payload)

\* BingxHttpClient._build_request_args: the exception it raises, or what it
\* signs and returns, and the caller's params dict as it leaves it
bingx_request_args(c, method, params, auth) ==
    LET timestamp == TimeMs
        with_window == dict_setitem(params, K_recvWindow,
                                    PyInt(IntToStr(clients[c].recv_window)))
        prepared  == bingx_prepare_payload(method, with_window, timestamp)
        signature == IF auth
                     THEN Str(bingx_generate_signature(clients[c].api_secret.v,
                                                       prepared.params_str))
                     ELSE None
        req_json  == dict_setitem(
                         dict_setitem(prepared.params, K_timestamp,
                                      PyInt(IntToStr(timestamp))),
                         K_signature, signature)
    IN  IF SessionClosed(clients[c].session)
        THEN [err |-> "RuntimeError", msg |-> session_closed_msg(c),
              params |-> params, request |-> NoRequest]
        ELSE IF auth /\ ~Truthy(clients[c].api_key)
        THEN [err |-> "ValueError",
              msg |-> "API key must be set for authenticated requests.",
              params |-> params, request |-> NoRequest]
        ELSE IF auth /\ ~Truthy(clients[c].api_secret)
        THEN [err |-> "ValueError",
              msg |-> "API secret must be set for authenticated requests.",
              params |-> params, request |-> NoRequest]
        ELSE [err |-> "", msg |-> "",
              params |-> IF method = "GET" THEN prepared.params ELSE req_json,
              request |->
                [method |-> method, auth |-> auth, timestamp |-> timestamp,
                 payload |-> prepared.params_str, signature |-> signature.v,
                 headers |-> IF auth THEN "X-BX-APIKEY" :> clients[c].api_key.v
                             ELSE <<>>,
                 query |-> IF method # "GET" THEN <<>>
                           ELSE prepared.url_params_str
                                \o (IF auth
                                    THEN <<"&">> \o K_signature \o <<"=">> \o signature.v
                                    ELSE <<>>),
                 json |-> IF method = "GET" THEN <<>> ELSE req_json,
                 has_json |-> method # "GET"]]

request_args(c, method, params, auth) ==
    IF clients[c].exchange = "bybit"
    THEN bybit_request_args(c, method, params, auth)
    ELSE bingx_request_args(c, method, params, auth)

\* the caller makes a new dict to pass as params; nothing is built from it yet
new_params(params) ==
    /\ params_obj' = [dict |-> params, passes |-> 0, made |-> params]
    /\ request' = NoRequest
    /\ last' = Returned("new_params", 0, <<params>>, 0)
    /\ UNCHANGED <<sessions, mgr_session, mgr_max_connections, closers, clients,
                   cache, lifetime, now, tasks, legacy_cache>>

\* HttpClient._async_request up to the dispatch: _build_request_args on the
\* dict the caller passes, which the caller still holds afterwards; passes
\* counts how often the caller has passed this dict, made is the dict as
\* the caller made it
build_request(c, method, auth) ==
    /\ c \in Constructed
    /\ params_obj.passes < MaxPasses
    /\ LET built == request_args(c, method, params_obj.dict, auth)
       IN  /\ request' = IF built.err = "" THEN built.request ELSE request
           /\ params_obj' = [dict |-> built.params,
                             passes |-> params_obj.passes + 1,
                             made |-> params_obj.made]
           /\ last' = [NoCall EXCEPT !.op = "build_request", !.c = c,
                                     !.args = <<method, params_obj.dict, auth>>,
                                     !.err = built.err, !.msg = built.msg]
    /\ UNCHANGED <<sessions, mgr_session, mgr_max_connections, closers, clients,
                   cache, lifetime, now, tasks, legacy_cache>>

\* HttpClient.set_recv_window
set_recv_window(c, recv_window) ==
    /\ c \in Constructed
    /\ clients' = [clients EXCEPT ![c].recv_window = recv_window]
    /\ last' = Returned("set_recv_window", c, <<recv_window>>, 0)
    /\ UNCHANGED <<sessions, mgr_session, mgr_max_connections, closers,
                   cache, lifetime, now, tasks, request, params_obj, legacy_cache>>

(***************************** aiobybit: the legacy client cache ***********)
\* str(b) of a bool
bool_str(b) == IF b THEN <<"T", "r", "u", "e">> ELSE <<"F", "a", "l", "s", "e">>

\* hashlib.sha256(data).hexdigest(): one digest per input (collisions of
\* SHA-256 itself are not modelled)
sha256_hexdigest(data) == <<"sha256">> \o data

\* BybitClientCache._make_key
legacy_make_key(api_key, api_secret, demo, testnet) ==
    sha256_hexdigest(api_key.v \o <<":">> \o api_secret.v \o <<":">>
                     \o bool_str(demo) \o <<":">> \o bool_str(testnet))

LegacyLifetime == 600

\* BybitClientCache._is_expired
legacy_is_expired(timestamp) == now - timestamp > LegacyLifetime

\* BybitClientCache.get: the client it returns (0 = None) and the cache as
\* it leaves it (an expired entry is deleted)
legacy_get_result(api_key, api_secret, demo, testnet) ==
    LET key == legacy_make_key(api_key, api_secret, demo, testnet)
    IN  IF key \in DOMAIN legacy_cache
        THEN IF ~legacy_is_expired(legacy_cache[key].timestamp)
             THEN [client |-> legacy_cache[key].client, cache |-> legacy_cache]
             ELSE [client |-> 0,
                   cache |-> [k \in DOMAIN legacy_cache \ {key} |-> legacy_cache[k]]]
        ELSE [client |-> 0, cache |-> legacy_cache]

\* BybitClientCache.get
legacy_get(api_key, api_secret, demo, testnet) ==
    /\ LET got == legacy_get_result(api_key, api_secret, demo, testnet)
       IN  /\ legacy_cache' = got.cache
           /\ last' = Returned("legacy_get", 0,
                               <<api_key, api_secret, demo, testnet>>, got.client)
    /\ UNCHANGED <<sessions, mgr_session, mgr_max_connections, closers, clients,
                   cache, lifetime, now, tasks, request, params_obj>>

\* BybitClientCache.get_or_create; the aiobybit BybitHttpClient it
\* constructs has the fields of the aiotrade Bybit client
legacy_get_or_create(api_key, api_secret, testnet, demo, recv_window, referral_id) ==
    LET got == legacy_get_result(api_key, api_secret, demo, testnet)
    IN  IF got.client # 0
        THEN /\ legacy_cache' = got.cache
             /\ last' = Returned("legacy_get_or_create", got.client,
                                 <<api_key, api_secret, demo, testnet>>, got.client)
             /\ UNCHANGED <<sessions, mgr_session, mgr_max_connections, closers,
                            clients, cache, lifetime, now, tasks, request, params_obj>>
        ELSE /\ CanConstruct
             /\ clients' = Append(clients,
                                  NewClient("bybit", api_key, api_secret, demo,
                                            testnet, recv_window, referral_id))
             /\ sessions' = SessionsAfterInit
             /\ legacy_cache' =
                    (legacy_make_key(api_key, api_secret, demo, testnet)
                        :> [client |-> Len(clients) + 1, timestamp |-> now])
                    @@ got.cache
             /\ last' = Returned("legacy_get_or_create", Len(clients) + 1,
                                 <<api_key, api_secret, demo, testnet>>,
                                 Len(clients) + 1)
             /\ UNCHANGED <<mgr_session, mgr_max_connections, closers, cache,
                            lifetime, now, tasks, request, params_obj>>

\* BybitClientCache.clear
legacy_clear ==
    /\ legacy_cache' = <<>>
    /\ last' = Returned("legacy_clear", 0, <<>>, 0)
    /\ UNCHANGED <<sessions, mgr_session, mgr_max_connections, closers, clients,
                   cache, lifetime, now, tasks, request, params_obj>>

(***************************** specifications ******************************)
Init ==
    /\ sessions = <<>>
    /\ mgr_session = 0
    /\ mgr_max_connections = DefaultMaxConnections
    /\ closers = 0
    /\ clients = <<>>
    /\ cache = [e \in Exchanges |-> <<>>]
    /\ lifetime = [e \in Exchanges |-> DefaultLifetime]
    /\ now = 0
    /\ tasks = <<>>
    /\ request = NoRequest
    /\ params_obj = [dict |-> <<>>, passes |-> 0, made |-> <<>>]
    /\ legacy_cache = <<>>
    /\ last = NoCall

MaxConnectionsValues == {128, DefaultMaxConnections}
NoParams == <<>>
OkResponse(exchange) == (result_code_key(exchange) :> PyInt(<<"0">>))

\* Session lifecycle: the manager, clients of both exchanges, their requests
Next ==
    \/ \E m \in MaxConnectionsValues : setup(m)
    \/ get_session
    \/ SharedSessionManager_close
    \/ SharedSessionManager_close_resume
    \/ \E e \in Exchanges : HttpClient_init(e, Key1, Secret1, FALSE, FALSE)
    \/ \E c \in Constructed : HttpClient_close(c)
    \/ \E c \in Constructed : aexit(c)
    \/ \E c \in Constructed, m \in {"GET", "POST"} :
          \E w \in {<<"ClientConnectionError", <<>> >>,
                    <<"", OkResponse(clients[c].exchange)>>} :
              async_request(c, m, NoParams, FALSE, w[1], w[2])

Spec == Init /\ [][Next]_vars

(***************************** claims: session lifecycle *******************)
SharedClosedMessage == "Session is closed (shared). Create a new HttpClient instance."
IndividualClosedMessage ==
    "Session is closed (individual). Create a new HttpClient instance."

\* C1: close() on a client attached to the shared session does nothing to
\* the shared session (it stays open, is_initialized() stays as it was), and
\* the only operation that closes a session created by setup() is
\* SharedSessionManager.close().
C1_ClientCloseLeavesSharedSession ==
    [][/\ (last'.op = "HttpClient.close" /\ clients[last'.c].shared)
            => (sessions' = sessions /\ mgr_session' = mgr_session)
       /\ (\E s \in 1..Len(sessions) :
              sessions[s].owner = "shared" /\ ~sessions[s].closed /\ sessions'[s].closed)
            => last'.op = "SharedSessionManager.close:await"]_vars

\* C2: __aexit__ of a client attached to the shared session changes no
\* session and not the manager, so an open shared session stays open and
\* is_initialized() stays true; __aexit__ of a client that owns a private
\* session closes that session and no other.
C2_ExitIsNoOpForSharedClients ==
    [][last'.op = "__aexit__" =>
          /\ mgr_session' = mgr_session
          /\ clients' = clients
          /\ IF clients[last'.c].shared
             THEN sessions' = sessions /\ (is_initialized => is_initialized')
             ELSE /\ sessions'[clients[last'.c].session].closed
                  /\ \A s \in 1..Len(sessions) :
                        s # clients[last'.c].session => sessions'[s] = sessions[s]
                  /\ Len(sessions') = Len(sessions)]_vars

C2_Witness ==
    /\ last.op = "__aexit__"
    /\ clients[last.c].shared
    /\ is_initialized
    /\ \E d \in Constructed : ~clients[d].shared /\ sessions[clients[d].session].closed

\* C3: a request of a client whose session is closed raises before any
\* dispatch, with the 'shared' message for a client attached to the shared
\* session and the 'individual' message for one that owns its session.  A
\* closed session never reopens and a client never changes its session, and
\* SharedSessionManager.close() closes the session of every client attached
\* to the manager's session when it is called: so those clients' requests
\* fail with the 'shared' error from then on, also after another setup().
C3_ClosedSessionFailsFast ==
    [][/\ (last'.op = "request" /\ sessions[clients[last'.c].session].closed)
            => /\ last'.err = "RuntimeError"
               /\ last'.ret = 0
               /\ last'.msg = IF clients[last'.c].shared
                              THEN SharedClosedMessage ELSE IndividualClosedMessage
       /\ \A s \in 1..Len(sessions) : sessions[s].closed => sessions'[s].closed
       /\ \A c \in Constructed : clients'[c].session = clients[c].session
       /\ last'.op = "SharedSessionManager.close:await"
            => \A c \in Constructed :
                  clients[c].session = mgr_session
                      => sessions'[clients'[c].session].closed]_vars

C3_Witness ==
    /\ last.op = "request"
    /\ last.err = "RuntimeError"
    /\ last.msg = SharedClosedMessage
    /\ clients[last.c].shared
    /\ is_initialized
    /\ mgr_session # clients[last.c].session

\* C4: a client is attached to the shared session exactly when the manager
\* held an open session at the moment the client was constructed, and then
\* it holds that session; otherwise it holds a private session of its own.
\* No later step changes a client's session or its uses_shared_session flag.
C4_DecidedAtConstruction ==
    /\ [](\A c \in Constructed :
            /\ uses_shared_session(c) <=> clients[c].at_ctor # 0
            /\ uses_shared_session(c)
                 => /\ clients[c].session = clients[c].at_ctor
                    /\ sessions[clients[c].session].owner = "shared"
            /\ ~uses_shared_session(c)
                 => /\ sessions[clients[c].session].owner = "private"
                    /\ mgr_session # clients[c].session
                    /\ \A d \in Constructed \ {c} :
                          clients[d].session # clients[c].session)
    /\ [][\A c \in Constructed :
            /\ clients'[c].session = clients[c].session
            /\ clients'[c].shared = clients[c].shared]_vars

C4_Witness ==
    /\ is_initialized
    /\ \E c \in Constructed : clients[c].shared /\ clients[c].session # mgr_session
    /\ \E d \in Constructed : ~clients[d].shared

\* C5: setup() on an open shared session changes neither the session nor
\* max_connections and raises nothing; otherwise it installs a new open
\* session that is none of the earlier ones and records max_connections.
\* Either way is_initialized() is true afterwards.
C5_SetupIdempotentOrFresh ==
    [][last'.op = "setup" =>
          /\ last'.err = ""
          /\ is_initialized'
          /\ \A s \in 1..Len(sessions) : sessions'[s] = sessions[s]
          /\ IF is_initialized
             THEN /\ sessions' = sessions
                  /\ mgr_session' = mgr_session
                  /\ mgr_max_connections' = mgr_max_connections
             ELSE /\ mgr_session' \notin 1..Len(sessions)
                  /\ mgr_session' \in 1..Len(sessions')
                  /\ mgr_max_connections' = last'.args[1]]_vars

C5_Witness ==
    /\ last.op = "setup"
    /\ mgr_session > 1
    /\ last.args[1] # mgr_max_connections
    /\ is_initialized

\* C6: get_session() raises exactly when is_initialized() is false and
\* otherwise returns the manager's open session; when
\* SharedSessionManager.close() returns is_initialized() is false; close()
\* suspends to close a session only when one is open, and otherwise changes
\* nothing and raises nothing.
C6_GetSessionAndClose ==
    [][/\ last'.op = "get_session" =>
            /\ (last'.err # "") <=> ~is_initialized
            /\ is_initialized
                 => (last'.ret = mgr_session /\ ~sessions[mgr_session].closed)
            /\ UNCHANGED <<sessions, mgr_session, closers, clients>>
       /\ last'.op = "SharedSessionManager.close" =>
            /\ ~is_initialized'
            /\ last'.err = ""
            /\ closers' = closers
                 => (~is_initialized /\ UNCHANGED <<sessions, mgr_session, clients>>)
       /\ last'.op = "SharedSessionManager.close:await" => is_initialized]_vars

C6_Witness ==
    /\ last.op = "SharedSessionManager.close"
    /\ closers = 0
    /\ mgr_session # 0
    /\ sessions[mgr_session].closed

\* C7: every open session created by setup() is the session the manager
\* holds (so at most one is open and a later close() closes it).
C7_AtMostOneLiveSharedSession ==
    \A s \in 1..Len(sessions) :
        (sessions[s].owner = "shared" /\ ~sessions[s].closed) => mgr_session = s

(***************************** request specification ***********************)
CredentialPairs ==
    {<<Key1, Secret1>>, <<Key1, None>>, <<None, Secret1>>, <<Empty, Secret1>>,
     <<Key1, Empty>>, <<None, None>>}

RequestParams ==
    {NoParams,
     ("positionIdx" :> PyInt(<<"0">>)),
     ("positionIdx" :> Str(<<"1">>)),
     ("positionIdx" :> Str(<<"x">>)),
     ("positionIdx" :> None)}

Responses ==
    {("retCode" :> PyInt(<<"0">>)) @@ ("retMsg" :> Str(<<"O", "K">>)),
     ("retCode" :> PyInt(<<"1", "0", "0", "0", "4">>))
         @@ ("retMsg" :> Str(<<"b", "a", "d">>)),
     ("code" :> PyInt(<<"0">>)) @@ ("msg" :> Str(<<>>)),
     ("code" :> PyInt(<<"1", "0", "9">>)) @@ ("msg" :> None)
         @@ ("error" :> Str(<<"e">>)),
     ("code" :> PyInt(<<"0">>)) @@ ("retCode" :> PyInt(<<"7">>)),
     ("retCode" :> Str(<<"0">>)),
     ("retCode" :> PyFloat(<<"0", ".", "0">>)),
     ("code" :> None),
     <<>>}

Wires == {<<f, <<>> >> : f \in WireFailures} \cup {<<"", r>> : r \in Responses}

\* The request pipeline, followed for one client (a request reads only the
\* client it is called on and that client's session): a client of either
\* exchange with any combination of credentials, open or closed, issuing
\* requests of every method
NextRequest ==
    \/ \E e \in Exchanges, cr \in CredentialPairs :
          /\ clients = <<>>
          /\ HttpClient_init(e, cr[1], cr[2], FALSE, FALSE)
    \/ \E c \in Constructed : HttpClient_close(c)
    \/ \E c \in Constructed, m \in Methods, p \in RequestParams, a \in BOOLEAN,
          w \in Wires :
          async_request(c, m, p, a, w[1], w[2])

SpecRequest == Init /\ [][NextRequest]_vars

(***************************** claims: requests *****************************)
CredentialMessages ==
    {"API key and API secret must be set for authenticated requests.",
     "API key must be set for authenticated requests.",
     "API secret must be set for authenticated requests."}

MissingCredentials(c) ==
    \/ clients[c].api_key \in {None, Empty}
    \/ clients[c].api_secret \in {None, Empty}

\* int() rejects the positionIdx of the parameters
PositionIdxNotCastable(params) ==
    /\ "positionIdx" \in DOMAIN params
    /\ \/ params["positionIdx"].t = "none"
       \/ params["positionIdx"].t = "str" /\ ~IsIntLiteral(params["positionIdx"].v)

ErrorCodeOf(resp) ==
    IF "code" \in DOMAIN resp THEN resp["code"]
    ELSE IF "retCode" \in DOMAIN resp THEN resp["retCode"]
    ELSE None

HasTextAt(resp, i) ==
    MessageKeys[i] \in DOMAIN resp /\ resp[MessageKeys[i]].t = "str"

IsErrorMessageOf(message, resp) ==
    \/ \E i \in 1..Len(MessageKeys) :
          /\ HasTextAt(resp, i)
          /\ \A j \in 1..(i - 1) : ~HasTextAt(resp, j)
          /\ message = resp[MessageKeys[i]].v
    \/ /\ \A i \in 1..Len(MessageKeys) : ~HasTextAt(resp, i)
       /\ message = NoMessage

ResultCodeIsZero(exchange, resp) ==
    LET key == IF exchange = "bybit" THEN "retCode" ELSE "code"
    IN  /\ key \in DOMAIN resp
        /\ resp[key] \in {PyInt(<<"0">>), PyFloat(<<"0", ".", "0">>)}

\* C9: a request returns the decoded response only when the exchange's
\* top-level result code equals 0; a response with any other or no result
\* code reaches the caller as ExchangeResponseError with the exchange name,
\* the extracted code and message and the raw response; every call
\* dispatches at most once.
C9_NonZeroCodeRaises ==
    [][last'.op = "request" =>
          /\ last'.ret \in {0, 1}
          /\ last'.err = ""
               => /\ last'.ret = 1
                  /\ ResultCodeIsZero(clients[last'.c].exchange, last'.resp)
          /\ last'.err = "ExchangeResponseError"
               => /\ last'.ret = 1
                  /\ ~ResultCodeIsZero(clients[last'.c].exchange, last'.resp)
                  /\ last'.exchange = clients[last'.c].exchange
                  /\ last'.code = ErrorCodeOf(last'.resp)
                  /\ IsErrorMessageOf(last'.message, last'.resp)
          /\ last'.err \in {"", "ExchangeResponseError"} \cup WireFailures
                             \cup {"RuntimeError", "ValueError", "TypeError"}]_vars

C9_Witness ==
    /\ last.op = "request"
    /\ last.err = "ExchangeResponseError"
    /\ last.exchange = "bybit"
    /\ "retCode" \notin DOMAIN last.resp
    /\ last.code = PyInt(<<"1", "0", "9">>)
    /\ last.message = <<"e">>

(***************************** cache specification *************************)
CacheKeys == {Key1}
Lifetimes == {0, 1}

\* the flag combinations an exchange's cache distinguishes
Flags(exchange) ==
    IF exchange = "bybit" THEN BOOLEAN \X BOOLEAN ELSE BOOLEAN \X {FALSE}

\* The two caches share no state (each class has its own _cache, and
\* configure() sets the attribute of the class it is called on), so a
\* behaviour follows the cache of one exchange
OnlyExchange(e) ==
    /\ \A c \in Constructed : clients[c].exchange = e
    /\ \A o \in Exchanges \ {e} :
          cache[o] = <<>> /\ lifetime[o] = DefaultLifetime

\* One client cache with time passing; a caller adds a client under the
\* credentials and flags the client was built with
NextCache ==
    \E e \in Exchanges :
        /\ OnlyExchange(e)
        /\ \/ \E k \in CacheKeys, f \in Flags(e) :
                 /\ get_or_create(e, k, Secret1, f[2], f[1], DefaultRecvWindow, None)
                 /\ UNCHANGED tasks
           \/ \E k \in CacheKeys, f \in Flags(e) :
                 cache_get(e, k, Secret1, f[1], f[2])
           \/ \E c \in Constructed, f \in Flags(e) :
                 /\ clients[c].base_url = base_url(e, f[1], f[2])
                 /\ cache_add(e, c, clients[c].api_key, clients[c].api_secret,
                              f[1], f[2])
           \/ cleanup_expired(e) /\ UNCHANGED tasks
           \/ clear(e)
           \/ \E l \in Lifetimes : configure(e, l)
           \/ Tick

SpecCache == Init /\ [][NextCache]_vars

(***************************** claims: caches *******************************)
\* C10: get_or_create returns the client of the entry it leaves under the
\* key; when an unexpired entry for the key exists it returns that entry's
\* client and constructs nothing, otherwise it constructs exactly one
\* client.  An entry stays, with the same client, until clear(), an add()
\* for its key or a cleanup_expired() after its expiry: so two
\* get_or_create calls with the same key fields and no expiry in between
\* return the same instance and construct one client.
C10_CacheIdentity ==
    [][/\ last'.op = "get_or_create" =>
            LET e == last'.args[1]
                key == last'.args[2]
            IN  /\ key \in DOMAIN cache'[e]
                /\ cache'[e][key].client = last'.ret
                /\ (key \in DOMAIN cache[e] /\ cache[e][key].expires_at > now)
                     => /\ last'.ret = cache[e][key].client
                        /\ clients' = clients
                        /\ cache' = cache
                /\ key \notin DOMAIN cache[e]
                     => /\ Len(clients') = Len(clients) + 1
                        /\ last'.ret = Len(clients')
       /\ \A e \in Exchanges : \A key \in DOMAIN cache[e] :
            (/\ last'.op # "clear"
             /\ last'.op = "add" => last'.args # <<e, key>>
             /\ last'.op = "cleanup_expired" => cache[e][key].expires_at > now)
              => /\ key \in DOMAIN cache'[e]
                 /\ cache'[e][key].client = cache[e][key].client]_vars

C10_Witness ==
    /\ last.op = "get_or_create"
    /\ last.msg = "hit"
    /\ now > 0
    /\ cache[last.args[1]][last.args[2]].expires_at > now
    /\ cache[last.args[1]][last.args[2]].client = last.ret
    /\ last.args[1] = "bybit"
    /\ last.args[2][3] # last.args[2][4]

(***************************** isolation specification *********************)
\* Both caches side by side, without time or eviction: clients built by
\* get_or_create with every flag combination, and add() called with any
\* client of the cache's exchange under any key fields (add checks nothing)
NextIsolation ==
    \E e \in Exchanges :
        \/ \E f \in Flags(e) :
              /\ get_or_create(e, Key1, Secret1, f[2], f[1], DefaultRecvWindow, None)
              /\ UNCHANGED tasks
        \/ \E f \in Flags(e) : cache_get(e, Key1, Secret1, f[1], f[2])
        \/ \E c \in Constructed, f \in Flags(e) :
              cache_add(e, c, Key1, Secret1, f[1], f[2])

SpecIsolation == Init /\ [][NextIsolation]_vars

(***************************** claims: cache isolation **********************)
\* client c of cl is a client of exchange e constructed with the fields of key
BuiltForIn(cl, c, e, key) ==
    /\ cl[c].exchange = e
    /\ cl[c].api_key = key[1]
    /\ cl[c].api_secret = key[2]
    /\ cl[c].base_url =
          base_url(e, key[3], IF e = "bybit" THEN key[4] ELSE FALSE)

BuiltFor(c, e, key) == BuiltForIn(clients, c, e, key)

\* every entry holds a client constructed with the fields of its key
Isolated ==
    \A e \in Exchanges : \A k \in DOMAIN cache[e] :
        BuiltFor(cache[e][k].client, e, k)

\* no instance is held under two keys; clients under different keys of one
\* cache have different base URLs when the keys differ in the flags
NoInstanceUnderTwoKeys ==
    \A e1 \in Exchanges, e2 \in Exchanges :
        \A k1 \in DOMAIN cache[e1], k2 \in DOMAIN cache[e2] :
            (e1 # e2 \/ k1 # k2)
              => /\ cache[e1][k1].client # cache[e2][k2].client
                 /\ (e1 = e2 /\ k1[1] = k2[1] /\ k1[2] = k2[2])
                      => clients[cache[e1][k1].client].base_url
                           # clients[cache[e2][k2].client].base_url

Unexpired(e, key) == key \in DOMAIN cache[e] /\ cache[e][key].expires_at > now

\* the entry under key is present and its expiry lies in the past
ExpiryPassed(e, key) == key \in DOMAIN cache[e] /\ cache[e][key].expires_at < now

\* C12 as stated: get_or_create returns the cached instance only if the
\* entry for the key is present and unexpired; if the entry's expiry has
\* passed, whether or not cleanup_expired() has run, it constructs a new
\* client, files it under the key with expiry now + lifetime and returns it.
C12_ExpiredEntryIsReplaced ==
    [][last'.op = "get_or_create" =>
          LET e == last'.args[1]
              key == last'.args[2]
          IN  /\ Unexpired(e, key)
                   => last'.ret = cache[e][key].client /\ clients' = clients
              /\ ExpiryPassed(e, key)
                   => /\ Len(clients') = Len(clients) + 1
                      /\ last'.ret = Len(clients')
                      /\ cache'[e][key] = [client |-> last'.ret,
                                           expires_at |-> now + lifetime[e]]]_vars

\* C13 as stated: get() on a key whose entry's expiry has elapsed returns
\* None, with no cleanup_expired() needed.
C13_GetOfExpiredEntryIsAbsent ==
    [][(last'.op = "get" /\ ExpiryPassed(last'.args[1], last'.args[2]))
          => last'.ret = 0]_vars

\* C14: cleanup_expired() removes exactly the entries with expires_at <= now,
\* leaves every other entry (client and expiry), the other cache, the
\* clients and the lifetime unchanged, and returns the number of entries it
\* removed: 0 on an empty cache, 1 for a single entry inserted with
\* lifetime 0.
C14_CleanupRemovesExactlyExpired ==
    [][last'.op = "cleanup_expired" =>
          LET e == last'.args[1]
          IN  /\ DOMAIN cache'[e]
                   = {k \in DOMAIN cache[e] : cache[e][k].expires_at > now}
              /\ \A k \in DOMAIN cache'[e] : cache'[e][k] = cache[e][k]
              /\ last'.ret
                   = Cardinality(DOMAIN cache[e]) - Cardinality(DOMAIN cache'[e])
              /\ cache[e] = <<>> => last'.ret = 0
              /\ \A o \in Exchanges \ {e} : cache'[o] = cache[o]
              /\ UNCHANGED <<clients, sessions, lifetime, now>>]_vars

\* a sweep at the instant a lifetime-0 entry was inserted removes it
C14_Witness ==
    /\ last.op = "cleanup_expired"
    /\ last.ret = 1
    /\ now = 0
    /\ lifetime[last.args[1]] = 0
    /\ cache[last.args[1]] = <<>>
    /\ Len(clients) = 1

(***************************** claims: add and configure ********************)
\* C15: add(client, key fields) leaves the given client under the key,
\* whatever was there before, with expiry now + the lifetime configured at
\* that moment; every other key's entry and the other cache are unchanged,
\* and the key is the only one that can be new.
C15_AddInsertsOrOverwrites ==
    [][last'.op = "add" =>
          LET e == last'.args[1]
              key == last'.args[2]
          IN  /\ DOMAIN cache'[e] = DOMAIN cache[e] \cup {key}
              /\ cache'[e][key] = [client |-> last'.c,
                                   expires_at |-> now + lifetime[e]]
              /\ \A k \in DOMAIN cache[e] \ {key} : cache'[e][k] = cache[e][k]
              /\ \A o \in Exchanges \ {e} : cache'[o] = cache[o]
              /\ UNCHANGED <<clients, sessions, lifetime, now>>]_vars

\* an older client is put back under its key with a configured lifetime
C15_Witness ==
    /\ last.op = "add"
    /\ now > 0
    /\ Len(clients) = 2
    /\ clients[1].base_url = clients[2].base_url
    /\ last.c = 1
    /\ lifetime[last.args[1]] = 1
    /\ cache[last.args[1]][last.args[2]]
         = [client |-> 1, expires_at |-> now + 1]

\* C16: configure(lifetime_seconds) sets the lifetime of the cache it is
\* called on and nothing else: every entry keeps its client and expiry, so
\* what cleanup_expired() removes at any time is what it would have removed
\* without the call; entries inserted afterwards expire after the new
\* lifetime.
C16_ConfigureIsNotRetroactive ==
    [][/\ last'.op = "configure" =>
            /\ cache' = cache
            /\ lifetime'[last'.args[1]] = last'.args[2]
            /\ \A o \in Exchanges \ {last'.args[1]} : lifetime'[o] = lifetime[o]
            /\ \A t \in 0..MaxTime : \A e \in Exchanges :
                 {k \in DOMAIN cache'[e] : cache'[e][k].expires_at <= t}
                   = {k \in DOMAIN cache[e] : cache[e][k].expires_at <= t}
       /\ (last'.op = "add" \/ (last'.op = "get_or_create" /\ last'.msg = "miss"))
            => /\ last'.args[2] \in DOMAIN cache'[last'.args[1]]
               /\ cache'[last'.args[1]][last'.args[2]].expires_at
                    = now + lifetime[last'.args[1]]]_vars

\* the lifetime is set to 0 while an entry inserted under another lifetime
\* is still unexpired
C16_Witness ==
    /\ last.op = "configure"
    /\ last.args[2] = 0
    /\ lifetime[last.args[1]] = 0
    /\ now > 0
    /\ \E k \in DOMAIN cache[last.args[1]] :
          cache[last.args[1]][k].expires_at > now

(***************************** gather specification ************************)
\* the calls a gathered coroutine makes: <<api_key, api_secret, testnet, demo>>,
\* on Bybit with testnet set or not, on BingX with demo set or not
GatherCalls(exchange) ==
    IF exchange = "bybit"
    THEN {<<Key1, Secret1, testnet, FALSE>> : testnet \in BOOLEAN}
    ELSE {<<Key1, Secret1, FALSE, demo>> : demo \in BOOLEAN}

\* Coroutines calling get_or_create are gathered and run by the event loop
\* in any order, interleaved with each other and with direct calls of the
\* coroutine that gathered them; nothing evicts
NextGather ==
    \/ \E e \in Exchanges, n \in 1..MaxTasks :
          \E calls \in [1..n -> GatherCalls(e)] : gather(e, calls)
    \/ \E t \in Tasks : get_or_create_aenter_and_fetch(t)
    \/ \E e \in Exchanges : \E call \in GatherCalls(e) :
          /\ get_or_create(e, call[1], call[2], call[3], call[4],
                           DefaultRecvWindow, None)
          /\ UNCHANGED tasks

SpecGather == Init /\ [][NextGather]_vars

(***************************** claims: concurrent get_or_create *************)
\* the gathered coroutine t has returned
Done(t) == tasks[t].kind = "get_or_create" /\ tasks[t].state = "done"

\* C17: gathered get_or_create calls with the same key all receive the same
\* instance, the instance is a client built for that key, and one client
\* is constructed per key however the tasks interleave.
C17_NoDoubleConstruction ==
    /\ \A t1 \in Tasks, t2 \in Tasks :
          (/\ Done(t1) /\ Done(t2)
           /\ tasks[t1].exchange = tasks[t2].exchange
           /\ tasks[t1].args = tasks[t2].args)
            => tasks[t1].ret = tasks[t2].ret
    /\ \A t \in Tasks :
          Done(t) =>
            /\ tasks[t].ret \in Constructed
            /\ BuiltFor(tasks[t].ret, tasks[t].exchange,
                        make_key(tasks[t].exchange, tasks[t].args[1],
                                 tasks[t].args[2], tasks[t].args[4],
                                 tasks[t].args[3]))
    /\ \A c1 \in Constructed, c2 \in Constructed :
          (/\ clients[c1].exchange = clients[c2].exchange
           /\ clients[c1].api_key = clients[c2].api_key
           /\ clients[c1].api_secret = clients[c2].api_secret
           /\ clients[c1].base_url = clients[c2].base_url)
            => c1 = c2

\* two coroutines gathered together with the same key have both returned
C17_Witness ==
    /\ Len(tasks) = 2
    /\ Done(1) /\ Done(2)
    /\ tasks[1].exchange = tasks[2].exchange
    /\ tasks[1].args = tasks[2].args
    /\ tasks[1].ret = tasks[2].ret
    /\ Len(clients) = 1
    /\ last.op = "get_or_create"
    /\ last.msg = "hit"

(***************************** sweeper specification ***********************)
Intervals == {1, 2}

\* the behaviour has touched no cache but that of exchange e
SweeperOnly(e) ==
    /\ OnlyExchange(e)
    /\ \A t \in Tasks : tasks[t].exchange = e

\* no cleanup task is running: the application keeps one per cache and
\* creates the next after cancelling the one before
NoneSweeping == \A t \in Tasks : tasks[t].state # "sleeping"

\* One cache (the caches share no state) with its background cleanup
\* tasks: entries come from get_or_create under the configured lifetime,
\* time passes, cleanup tasks are created and cancelled, and only the
\* workers sweep
NextSweeper ==
    \/ \E e \in Exchanges, l \in Lifetimes : SweeperOnly(e) /\ configure(e, l)
    \/ \E e \in Exchanges :
          /\ SweeperOnly(e)
          /\ get_or_create(e, Key1, Secret1, FALSE, FALSE, DefaultRecvWindow, None)
          /\ UNCHANGED tasks
    \/ Tick
    \/ \E e \in Exchanges, i \in Intervals :
          SweeperOnly(e) /\ NoneSweeping /\ create_cleanup_task(e, i)
    \/ \E t \in Tasks : worker(t)
    \/ \E t \in Tasks : cancel(t)

\* time passes, and the event loop resumes a worker whose sleep is over
SpecSweeper ==
    /\ Init
    /\ [][NextSweeper]_vars
    /\ WF_vars(Tick)
    /\ \A t \in 1..MaxTasks : WF_vars(worker(t))

(***************************** claims: background cleanup *******************)
\* the key the sweeper specification fills
SweepKey(e) == make_key(e, Key1, Secret1, FALSE, FALSE)

\* the entry under the key has expired and is still in the cache
ExpiredEntry(e) ==
    /\ SweepKey(e) \in DOMAIN cache[e]
    /\ cache[e][SweepKey(e)].expires_at <= now

\* t is a cleanup task of exchange e that has not been cancelled
Sweeping(t, e) ==
    /\ t \in Tasks
    /\ tasks[t].kind = "cleanup"
    /\ tasks[t].exchange = e
    /\ tasks[t].state = "sleeping"

\* C18: a cleanup task sweeps its own cache when its sleep is over, raises
\* nothing (also on an empty cache) and goes back to sleep for one interval;
\* a cancelled task never runs again, and a cache without a running task
\* loses no entry; an expired entry is eventually removed by a task that is
\* not cancelled (within the modelled time: the task wakes by MaxTime).
C18_SweeperRemovesExpiredUntilCancelled ==
    /\ [][/\ \A t \in Tasks :
               tasks[t].state = "cancelled" => tasks'[t] = tasks[t]
          /\ last'.op = "cleanup_expired" =>
               /\ last'.err = ""
               /\ \E t \in Tasks :
                    /\ Sweeping(t, last'.args[1])
                    /\ now >= tasks[t].wake_at
                    /\ tasks' = [tasks EXCEPT ![t].wake_at = now + tasks[t].interval]
                    /\ tasks[t].interval > 0
               /\ DOMAIN cache'[last'.args[1]]
                    = {k \in DOMAIN cache[last'.args[1]] :
                         cache[last'.args[1]][k].expires_at > now}
          /\ \A e \in Exchanges :
               (\A t \in Tasks : ~Sweeping(t, e))
                 => DOMAIN cache[e] \subseteq DOMAIN cache'[e]]_vars
    /\ \A e \in Exchanges : \A t \in 1..MaxTasks :
          (ExpiredEntry(e) /\ Sweeping(t, e) /\ tasks[t].wake_at <= MaxTime)
            ~> (~ExpiredEntry(e) \/ ~Sweeping(t, e))

\* a worker has just removed an expired entry and sleeps again
C18_Witness ==
    /\ last.op = "cleanup_expired"
    /\ last.ret = 1
    /\ now > 0
    /\ \E t \in Tasks :
          /\ Sweeping(t, last.args[1])
          /\ tasks[t].wake_at = now + tasks[t].interval
    /\ \E t \in Tasks : tasks[t].state = "cancelled"

(***************************** construction specification ******************)
\* Clients of both exchanges constructed with every combination of the
\* environment flags, and closed
NextConstruct ==
    \/ \E e \in Exchanges : \E f \in Flags(e) :
          HttpClient_init(e, Key1, Secret1, f[1], f[2])
    \/ \E c \in Constructed : HttpClient_close(c)

SpecConstruct == Init /\ [][NextConstruct]_vars

(***************************** claims: base URL *****************************)
\* the URL the claim gives for each combination of flags
ExpectedBaseUrl(exchange, demo, testnet) ==
    IF exchange = "bybit"
    THEN CASE demo /\ testnet -> "https://api-demo-testnet.bybit.com"
           [] demo /\ ~testnet -> "https://api-demo.bybit.com"
           [] ~demo /\ testnet -> "https://api-testnet.bybit.com"
           [] ~demo /\ ~testnet -> "https://api.bybit.com"
    ELSE CASE demo -> "https://open-api-vst.bingx.com"
           [] ~demo -> "https://open-api.bingx.com"

\* C19: a constructed client's base URL is the one the table gives for its
\* flags (api-demo-testnet, api-demo, api-testnet, api for Bybit;
\* open-api-vst, open-api for BingX), it never changes afterwards, and two
\* different flag combinations of one exchange give different URLs.
C19_BaseUrlIsFixedFunctionOfFlags ==
    [][/\ last'.op = "HttpClient" =>
            /\ Len(clients') = Len(clients) + 1
            /\ clients'[last'.c].exchange = last'.args[1]
            /\ clients'[last'.c].base_url
                 = ExpectedBaseUrl(last'.args[1], last'.args[4], last'.args[5])
       /\ \A c \in Constructed : clients'[c].base_url = clients[c].base_url
       /\ \A e \in Exchanges : \A f1 \in Flags(e), f2 \in Flags(e) :
            f1 # f2 => base_url(e, f1[1], f1[2]) # base_url(e, f2[1], f2[2])]_vars

C19_Witness ==
    /\ last.op = "HttpClient"
    /\ last.args[1] = "bybit"
    /\ last.args[4] /\ last.args[5]
    /\ clients[last.c].base_url = "https://api-demo-testnet.bybit.com"
    /\ \E c \in Constructed :
          /\ clients[c].exchange = "bybit"
          /\ clients[c].base_url = "https://api-demo.bybit.com"

(***************************** error specification *************************)
\* the value a response holds under a key when it holds text there
TextAt(key) ==
    IF key = "retMsg" THEN Str(<<"b", "a", "d", " ", "s", "i", "g">>)
    ELSE Str(<<key>>)

\* the value a response holds under a code key
CodeAt(key) ==
    IF key = "retCode" THEN PyInt(<<"1", "0", "0", "0", "4">>)
    ELSE PyInt(<<"7">>)

ErrorKeys == {"code", "retCode", "msg", "message", "error", "retMsg",
              "error_message"}

\* every response that, for each of the keys, lacks it, holds None under it
\* or holds a code (code keys) or a text (message keys) under it
ErrorResponses ==
    {[k \in {x \in ErrorKeys : shape[x] # "absent"} |->
         IF shape[k] = "none" THEN None
         ELSE IF k \in {"code", "retCode"} THEN CodeAt(k) ELSE TextAt(k)]
       : shape \in [ErrorKeys -> {"absent", "none", "value"}]}

ErrorMessages == {<<>>, <<"c", "u", "s", "t", "o", "m">>}

NextError ==
    \E e \in Exchanges, resp \in ErrorResponses, m \in ErrorMessages :
        raise_ExchangeResponseError(e, resp, m)

SpecError == Init /\ [][NextError]_vars

(***************************** claims: ExchangeResponseError ****************)
BadSigResponse ==
    ("retCode" :> PyInt(<<"1", "0", "0", "0", "4">>))
      @@ ("retMsg" :> Str(<<"b", "a", "d", " ", "s", "i", "g">>))

\* C20 as stated: the code is the value under the first of code, retCode
\* present in the response (None if neither is) and the message is the
\* first text among msg, message, error, retMsg, error_message (the
\* fallback literal if there is none).
C20_CodeAndMessageFromResponse ==
    [][last'.op = "ExchangeResponseError" =>
          /\ last'.code = ErrorCodeOf(last'.resp)
          /\ IsErrorMessageOf(last'.message, last'.resp)]_vars

\* C20 amended: the code is taken as stated; the message is the message
\* argument of the constructor when one is given and not empty, and only
\* otherwise (as in both request pipelines) the first text among the
\* message keys or the fallback literal.
C20_MessageArgumentComesFirst ==
    [][last'.op = "ExchangeResponseError" =>
          /\ last'.resp = last'.args[2]
          /\ last'.exchange = last'.args[1]
          /\ last'.code = ErrorCodeOf(last'.resp)
          /\ last'.args[3] # <<>> => last'.message = last'.args[3]
          /\ last'.args[3] = <<>> => IsErrorMessageOf(last'.message, last'.resp)
          /\ (last'.resp = BadSigResponse /\ last'.args[3] = <<>>)
               => /\ last'.code = PyInt(<<"1", "0", "0", "0", "4">>)
                  /\ last'.message = <<"b", "a", "d", " ", "s", "i", "g">>]_vars

C20_Witness ==
    /\ last.op = "ExchangeResponseError"
    /\ last.args[3] = <<>>
    /\ last.resp = BadSigResponse
    /\ last.code = PyInt(<<"1", "0", "0", "0", "4">>)
    /\ last.message = <<"b", "a", "d", " ", "s", "i", "g">>

(***************************** signing *************************************)
RecvWindows == {DefaultRecvWindow, 10000}

\* the params dicts callers pass: up to two items, in either order
Values(exchange, k) ==
    IF exchange = "bybit"
    THEN (IF k = K_symbol THEN {Str(<<"B">>), Str(<<"a", ":", "b">>), None}
          ELSE IF k = K_qty THEN {PyInt(<<"1">>), Str(<<"1", ",", "5">>)}
          ELSE IF k = K_positionIdx THEN {Str(<<"0", "1">>)}
          ELSE {})
    ELSE (IF k = K_symbol THEN {Str(<<"B">>), Str(<<"{", "x">>)}
          ELSE IF k = K_type THEN {Str(<<"x">>)}
          ELSE {})

ParamKeys == {K_symbol, K_qty, K_positionIdx, K_type}

SignParams(exchange) ==
    {<<>>}
    \cup UNION {{<<<<k, v>>>> : v \in Values(exchange, k)} : k \in ParamKeys}
    \cup UNION {UNION {{<<<<k1, v1>>, <<k2, v2>>>> :
                            v1 \in Values(exchange, k1), v2 \in Values(exchange, k2)}
                       : k2 \in ParamKeys \ {k1}} : k1 \in ParamKeys}

\* one client builds requests from the dicts its caller makes, a second time
\* from the same dict as a retry of the same request, while set_recv_window
\* is called and time passes
NextSign ==
    \/ \E e \in Exchanges :
          /\ clients = <<>>
          /\ HttpClient_init(e, Key1, Secret1, FALSE, FALSE)
    \/ \E c \in Constructed, w \in RecvWindows : set_recv_window(c, w)
    \/ Tick
    \/ \E c \in Constructed : \E params \in SignParams(clients[c].exchange) :
          new_params(params)
    \/ \E c \in Constructed, method \in Methods, auth \in BOOLEAN :
          /\ params_obj.passes = 0 \/ (method = request.method /\ auth = request.auth)
          /\ build_request(c, method, auth)

SpecSign == Init /\ [][NextSign]_vars

\* the dict d with its items inserted in every order
Reorderings(d) ==
    {[i \in 1..Len(d) |-> d[f[i]]] : f \in Permutations(1..Len(d))}

Ascending(items) ==
    \A i \in 1..(Len(items) - 1) : StrLess(items[i][1], items[i + 1][1])

IsNotNone(item) == item[2].t # "none"

GetBuilt == last.op = "build_request" /\ last.err = "" /\ last.args[1] = "GET"

\* C21: the signed string and the query string of a GET are the same for
\* every insertion order of the same key-value pairs (at the same timestamp,
\* for the same client); for Bybit they are the pairs whose value is not
\* None, in ascending key order, joined by '&'.
C21_GetIgnoresInsertionOrder ==
    GetBuilt =>
        /\ \A q \in Reorderings(last.args[2]) :
               LET again == request_args(last.c, "GET", q, last.args[3]).request
               IN  /\ again.payload = request.payload
                   /\ again.query = request.query
        /\ clients[last.c].exchange = "bybit" =>
               \E s \in Reorderings(SelectSeq(last.args[2], IsNotNone)) :
                   /\ Ascending(s)
                   /\ request.payload = Join(KeyEqValue(s), <<"&">>)
                   /\ request.query = request.payload

\* a Bybit GET built from two pairs given in descending key order
C21_Witness ==
    /\ GetBuilt
    /\ clients[last.c].exchange = "bybit"
    /\ Len(last.args[2]) = 2
    /\ ~Ascending(last.args[2])
    /\ \A i \in 1..2 : IsNotNone(last.args[2][i])
    /\ request.payload # <<>>

BodyBuilt == last.op = "build_request" /\ last.err = "" /\ last.args[1] # "GET"

\* json.dumps(d), as the body of a request with json=d is written: ", "
\* between items and ": " after a key
body_text(d) == json_dumps(d, <<",", " ">>, <<":", " ">>)

\* C22: for a Bybit POST, PUT or DELETE the signed payload is the JSON text
\* of the dict sent as body (keys sorted, None dropped): every string value
\* is signed character for character as it is sent, and an empty dict is
\* signed as {}.
C22_SignedPayloadIsTheBodySent ==
    (BodyBuilt /\ last.args[3] /\ clients[last.c].exchange = "bybit") =>
        /\ request.json = SelectSeq(sorted(params_obj.dict), IsNotNone)
        /\ request.payload = body_text(request.json)

BingxBuilt ==
    last.op = "build_request" /\ last.err = "" /\ clients[last.c].exchange = "bingx"

BingxSigned == BingxBuilt /\ last.args[3]

\* the dict passed, with the recvWindow the client adds
WithWindow ==
    dict_setitem(last.args[2], K_recvWindow,
                 PyInt(IntToStr(clients[last.c].recv_window)))

\* ... and with the timestamp of the request
WithWindowAndTimestamp ==
    dict_setitem(WithWindow, K_timestamp, PyInt(IntToStr(request.timestamp)))

\* text is the k=v pairs of d in ascending key order, joined by '&'
IsSortedPairs(text, d) ==
    \E s \in Reorderings(d) : Ascending(s) /\ text = Join(KeyEqValue(s), <<"&">>)

\* C23 as stated: for every HTTP method the BingX signed string is the k=v
\* pairs of all parameters including timestamp, in ascending key order,
\* joined by '&'.
C23_SignedStringSortedForEveryMethod ==
    BingxSigned => IsSortedPairs(request.payload, WithWindowAndTimestamp)

\* C23 amended: for POST, PUT and DELETE the signed string is the sorted
\* pairs of all parameters including timestamp; for GET it is the sorted
\* pairs of the parameters followed by timestamp as the last pair, wherever
\* 'timestamp' sorts among the keys.
C23_TimestampSortedInBodyAppendedInGet ==
    BingxSigned =>
        IF last.args[1] = "GET"
        THEN \E text \in {SubSeq(request.payload, 1, n) :
                              n \in 0..Len(request.payload)} :
                /\ IsSortedPairs(text, WithWindow)
                /\ request.payload = with_timestamp(text, request.timestamp)
        ELSE IsSortedPairs(request.payload, WithWindowAndTimestamp)

\* a GET built from a dict with a key that sorts after 'timestamp'
C23_Witness ==
    /\ BingxSigned
    /\ HasKey(last.args[2], K_type)
    /\ StrLess(K_timestamp, K_type)
    /\ params_obj.passes = 1
    /\ last.args[1] = "GET"

BybitSigned ==
    /\ last.op = "build_request" /\ last.err = "" /\ last.args[3]
    /\ clients[last.c].exchange = "bybit"

\* C24: the Bybit signature is the HMAC, under the API secret, of timestamp,
\* api_key, recv_window and payload concatenated without separators, and
\* the X-BAPI-TIMESTAMP, X-BAPI-API-KEY and X-BAPI-RECV-WINDOW headers of
\* the same request carry exactly the values signed; the timestamp is the
\* clock at this request and the recv_window the client's at this request,
\* whatever set_recv_window calls came between requests.
C24_HeadersCarryWhatWasSigned ==
    BybitSigned =>
        /\ request.signature =
               hexdigest(clients[last.c].api_secret.v,
                         request.headers["X-BAPI-TIMESTAMP"]
                         \o request.headers["X-BAPI-API-KEY"]
                         \o request.headers["X-BAPI-RECV-WINDOW"]
                         \o request.payload)
        /\ request.headers["X-BAPI-SIGN"] = request.signature
        /\ request.headers["X-BAPI-TIMESTAMP"] = IntToStr(TimeMs)
        /\ request.headers["X-BAPI-API-KEY"] = clients[last.c].api_key.v
        /\ request.headers["X-BAPI-RECV-WINDOW"] = IntToStr(clients[last.c].recv_window)

\* a second signed request from the same dict, at a later time, after
\* set_recv_window changed the window
C24_Witness ==
    /\ BybitSigned
    /\ params_obj.passes = 2
    /\ request.timestamp > 0
    /\ clients[last.c].recv_window # DefaultRecvWindow
    /\ request.payload # <<>>

\* C25: an authenticated BingX POST, PUT or DELETE leaves nothing behind in
\* the caller's dict that a later request would sign: the signed string is
\* the sorted pairs of exactly the parameters the caller made, recvWindow
\* and this request's timestamp, also for a second request from the same
\* dict, and the body carries the signature separately.
C25_RetrySignsOnlyTheParameters ==
    (BingxSigned /\ last.args[1] # "GET") =>
        /\ IsSortedPairs(request.payload,
               dict_setitem(dict_setitem(params_obj.made, K_recvWindow,
                                PyInt(IntToStr(clients[last.c].recv_window))),
                            K_timestamp, PyInt(IntToStr(request.timestamp))))
        /\ request.signature =
               hexdigest(clients[last.c].api_secret.v, request.payload)
        /\ HasKey(request.json, K_signature)
        /\ \A i \in 1..Len(request.json) :
               request.json[i][1] = K_signature
                   => request.json[i][2] = Str(request.signature)

(***************************** cached clients and their sessions ***********)
\* One cache whose clients are built by get_or_create, with or without the
\* shared session, and looked up again, while clients and the shared
\* session are closed and set up again
NextReturned ==
    \/ setup(DefaultMaxConnections)
    \/ SharedSessionManager_close
    \/ SharedSessionManager_close_resume
    \/ \E e \in Exchanges :
          /\ OnlyExchange(e)
          /\ get_or_create(e, Key1, Secret1, FALSE, FALSE, DefaultRecvWindow, None)
          /\ UNCHANGED tasks
    \/ \E e \in Exchanges :
          OnlyExchange(e) /\ cache_get(e, Key1, Secret1, FALSE, FALSE)
    \/ \E c \in Constructed :
          cache_add(clients[c].exchange, c, Key1, Secret1, FALSE, FALSE)
    \/ \E e \in Exchanges : OnlyExchange(e) /\ clear(e)
    \/ \E c \in Constructed : HttpClient_close(c)

SpecReturned == Init /\ [][NextReturned]_vars

\* C26: a client returned by get_or_create or get has an open session when
\* it is returned, whatever cache operations, client close() calls and
\* SharedSessionManager setup() and close() calls came before.
C26_ReturnedClientHasOpenSession ==
    (last.op \in {"get", "get_or_create"} /\ last.ret # 0)
        => ~SessionClosed(clients[last.ret].session)

\* One cache whose clients are built by get_or_create, with or without the
\* shared session; entries are dropped by cleanup_expired (the lifetime is
\* configured to 0, so an entry expires at once), clear and add, clients
\* are closed, and clients send requests
NextEviction ==
    \/ setup(DefaultMaxConnections)
    \/ \E e \in Exchanges :
          /\ OnlyExchange(e)
          /\ get_or_create(e, Key1, Secret1, FALSE, FALSE, DefaultRecvWindow, None)
          /\ UNCHANGED tasks
    \/ \E c \in Constructed :
          cache_add(clients[c].exchange, c, Key1, Secret1, FALSE, FALSE)
    \/ \E e \in Exchanges : OnlyExchange(e) /\ cleanup_expired(e) /\ UNCHANGED tasks
    \/ \E e \in Exchanges : OnlyExchange(e) /\ clear(e)
    \/ \E e \in Exchanges : OnlyExchange(e) /\ configure(e, 0)
    \/ \E c \in Constructed : HttpClient_close(c)
    \/ \E c \in Constructed :
          async_request(c, "GET", NoParams, FALSE, "", OkResponse(clients[c].exchange))

SpecEviction == Init /\ [][NextEviction]_vars

\* the client is in no entry of its cache
Evicted(c) ==
    \A k \in DOMAIN cache[clients[c].exchange] :
        cache[clients[c].exchange][k].client # c

\* C29: removing an entry (cleanup_expired, clear, overwrite by add) changes
\* only the mapping: no session is closed and no client changes; the
\* private session of a client goes from open to closed only in that
\* client's own close().
C29_EvictionNeverClosesSessions ==
    [][/\ last'.op \in {"cleanup_expired", "clear", "add"}
           => UNCHANGED <<sessions, clients, mgr_session>>
       /\ \A c \in Constructed :
              (/\ ~clients[c].shared
               /\ ~SessionClosed(clients[c].session)
               /\ sessions'[clients[c].session].closed)
                  => (last'.op = "HttpClient.close" /\ last'.c = c)]_vars

\* an evicted client with a private session has just completed a request
C29_Witness ==
    /\ last.op = "request"
    /\ last.err = ""
    /\ Evicted(last.c)
    /\ ~clients[last.c].shared
    /\ ~SessionClosed(clients[last.c].session)

(***************************** calls by position and by keyword ************)
\* The value a call binds to the flag `name`: flags passed by position take
\* the callee's parameter names in order, the others come from the keywords
\* or default to False.  kwargs is a sequence of <<name, value>> pairs.
Bound(names, args, kwargs, name) ==
    IF \E i \in 1..Len(args) : names[i] = name
    THEN args[CHOOSE i \in 1..Len(args) : names[i] = name]
    ELSE IF \E i \in 1..Len(kwargs) : kwargs[i][1] = name
    THEN kwargs[CHOOSE i \in 1..Len(kwargs) : kwargs[i][1] = name][2]
    ELSE FALSE

\* the parameters after api_key and api_secret, in the order of the signature
GetOrCreateFlags == <<"testnet", "demo">>
MakeKeyFlags == <<"demo", "testnet">>

\* BybitClientsCache.get_or_create(api_key, api_secret, *args, **kwargs)
BybitClientsCache_get_or_create(api_key, api_secret, args, kwargs) ==
    /\ get_or_create("bybit", api_key, api_secret,
                     Bound(GetOrCreateFlags, args, kwargs, "testnet"),
                     Bound(GetOrCreateFlags, args, kwargs, "demo"),
                     DefaultRecvWindow, None)
    /\ UNCHANGED tasks

\* BybitClientsCache.get(api_key, api_secret, *args, **kwargs): the
\* arguments go to _make_key as they are
BybitClientsCache_get(api_key, api_secret, args, kwargs) ==
    cache_get("bybit", api_key, api_secret,
              Bound(MakeKeyFlags, args, kwargs, "demo"),
              Bound(MakeKeyFlags, args, kwargs, "testnet"))

\* BybitClientsCache.add(client, api_key, api_secret, *args, **kwargs)
BybitClientsCache_add(client, api_key, api_secret, args, kwargs) ==
    cache_add("bybit", client, api_key, api_secret,
              Bound(MakeKeyFlags, args, kwargs, "demo"),
              Bound(MakeKeyFlags, args, kwargs, "testnet"))

\* the ways a caller passes the flags: up to two by position, or by keyword
FlagCalls ==
    {[args |-> a, kwargs |-> <<>>] :
        a \in {<<>>} \cup {<<x>> : x \in BOOLEAN} \cup (BOOLEAN \X BOOLEAN)}
    \cup
    {[args |-> <<>>, kwargs |-> k] :
        k \in {<<<<"testnet", x>>>> : x \in BOOLEAN}
              \cup {<<<<"demo", x>>>> : x \in BOOLEAN}
              \cup {<<<<"demo", x>>, <<"testnet", y>>>> : x \in BOOLEAN, y \in BOOLEAN}}

\* the Bybit cache called with the flags by position and by keyword
NextPositional ==
    \/ \E call \in FlagCalls :
          BybitClientsCache_get_or_create(Key1, Secret1, call.args, call.kwargs)
    \/ \E call \in FlagCalls :
          BybitClientsCache_get(Key1, Secret1, call.args, call.kwargs)
    \/ \E c \in Constructed, call \in FlagCalls :
          BybitClientsCache_add(c, Key1, Secret1, call.args, call.kwargs)

SpecPositional == Init /\ [][NextPositional]_vars

\* the key get_or_create addresses when it is called with these arguments
GetOrCreateKey(call) ==
    bybit_make_key(Key1, Secret1,
                   Bound(GetOrCreateFlags, call.args, call.kwargs, "demo"),
                   Bound(GetOrCreateFlags, call.args, call.kwargs, "testnet"))

\* C27: get and get_or_create of BybitClientsCache address the same entry
\* when they are given the same argument list, by position or by keyword:
\* get(...) returns the client of the entry get_or_create(...) made or found.
C27_SameArgumentsSameEntry ==
    [][\A call \in FlagCalls :
          (/\ BybitClientsCache_get(Key1, Secret1, call.args, call.kwargs)
           /\ GetOrCreateKey(call) \in DOMAIN cache["bybit"])
              => last'.ret = cache["bybit"][GetOrCreateKey(call)].client]_vars

(***************************** what a hit ignores **************************)
Referrals(exchange) == IF exchange = "bybit" THEN {None, Str(<<"r">>)} ELSE {None}

\* get_or_create is called with every recv_window and referral_id, for
\* credentials in the cache and not, and the cache is cleared
NextHit ==
    \/ \E e \in Exchanges : \E f \in Flags(e), w \in RecvWindows, r \in Referrals(e) :
          /\ OnlyExchange(e)
          /\ get_or_create(e, Key1, Secret1, f[2], f[1], w, r)
          /\ UNCHANGED tasks
    \/ \E e \in Exchanges : OnlyExchange(e) /\ clear(e)

SpecHit == Init /\ [][NextHit]_vars

\* C28: the cache key is made of api_key, api_secret and the flags only: a
\* get_or_create for credentials and flags that have an entry returns the
\* entry's client, whatever recv_window and referral_id it is given, and
\* neither constructs a client nor changes the recv_window or referral_id
\* (or anything else) of the one it returns.
C28_HitIgnoresRecvWindowAndReferral ==
    [][\A e \in Exchanges : \A f \in Flags(e), w \in RecvWindows, r \in Referrals(e) :
          (/\ get_or_create(e, Key1, Secret1, f[2], f[1], w, r)
           /\ make_key(e, Key1, Secret1, f[1], f[2]) \in DOMAIN cache[e])
              => /\ last'.ret = cache[e][make_key(e, Key1, Secret1, f[1], f[2])].client
                 /\ last'.msg = "hit"
                 /\ UNCHANGED <<clients, sessions, cache>>]_vars

\* a hit on a client that was built with a recv_window and a referral_id
\* other than the defaults
C28_Witness ==
    /\ last.op = "get_or_create"
    /\ last.msg = "hit"
    /\ clients[last.ret].recv_window # DefaultRecvWindow
    /\ clients[last.ret].referral_id # None
    /\ Len(clients) = 1

(***************************** the legacy cache key ************************)
\* credentials with and without the ':' the key string is joined by
LegacyApiKeys == {Str(<<"a">>), Str(<<"a", ":", "b">>)}
LegacyApiSecrets == {Str(<<"c">>), Str(<<"b", ":", "c">>)}

NextLegacy ==
    \/ \E k \in LegacyApiKeys, s \in LegacyApiSecrets, demo \in BOOLEAN, testnet \in BOOLEAN :
          legacy_get_or_create(k, s, testnet, demo, DefaultRecvWindow, None)
    \/ \E k \in LegacyApiKeys, s \in LegacyApiSecrets, demo \in BOOLEAN, testnet \in BOOLEAN :
          legacy_get(k, s, demo, testnet)
    \/ legacy_clear
    \/ Tick

SpecLegacy == Init /\ [][NextLegacy]_vars

\* C30: two different (api_key, api_secret, demo, testnet) combinations
\* never produce the same legacy cache key, also for strings containing
\* ':', so what get_or_create and get of the legacy cache return is a
\* client built for exactly the credentials and flags of the call.
C30_LegacyKeySeparatesCredentials ==
    (last.op \in {"legacy_get_or_create", "legacy_get"} /\ last.ret # 0) =>
        /\ clients[last.ret].api_key = last.args[1]
        /\ clients[last.ret].api_secret = last.args[2]
        /\ clients[last.ret].base_url = bybit_base_url(last.args[3], last.args[4])
====
